---- MODULE Spec2Model ----
(***************************************************************************)
(* Ranking pipeline of the code search service:                            *)
(*   backend/services/search_v3/search_engine.py    SearchEngineV3         *)
(*   backend/services/search_v3/code_graph_ranker.py CodeGraphRanker       *)
(*   backend/services/search_v3/query_understanding.py QueryUnderstanding  *)
(*   backend/services/search_v2/hybrid_searcher.py  HybridSearcher         *)
(*                                                                         *)
(* Scores are Python floats in the code.  They are modelled as exact       *)
(* non-negative rationals <<n, d>> in lowest terms, so that equal scores   *)
(* (ties) and products of the boost factors are exact.                     *)
(* Strings are TLA+ strings; chars[s] is the character tuple of s, on      *)
(* which lower(), split(), substring tests and regular expressions work.   *)
(***************************************************************************)
EXTENDS Integers, Sequences, FiniteSets, TLC

----------------------------------------------------------------------------
(* Bounds of the model *)

\* longest ranked match list the vector store holds for one query
MaxMatches == 3
\* largest SearchConfig.top_k / top_k argument a request uses
MaxTopK == 2
\* longest response (list of results) the rerank backend returns
MaxRerankItems == 2
\* most files of a generated dependency map
MaxDepFiles == 5
\* most words of a generated query
MaxQueryWords == 3
\* longest result list given to the ranker directly
MaxBoostResults == 2
\* most index_repository runs on one indexer
MaxIndexRuns == 2
\* most words of a query drawn for the expansion
MaxExpandWords == 2
\* longest list of texts given to embed_documents
MaxTexts == 260
\* searches in flight on one engine at the same time
MaxRequests == 2

----------------------------------------------------------------------------
(* Characters and strings *)

UPPER == <<"A", "B", "C", "D", "E", "F", "G", "H", "I", "J", "K", "L", "M",
           "N", "O", "P", "Q", "R", "S", "T", "U", "V", "W", "X", "Y", "Z">>
LOWER == <<"a", "b", "c", "d", "e", "f", "g", "h", "i", "j", "k", "l", "m",
           "n", "o", "p", "q", "r", "s", "t", "u", "v", "w", "x", "y", "z">>

Range(f) == {f[i] : i \in DOMAIN f}

\* str.lower() on one character
lower_char(c) ==
    IF \E i \in 1..26 : UPPER[i] = c
    THEN LOWER[CHOOSE i \in 1..26 : UPPER[i] = c]
    ELSE c

\* str.lower()
lower(s) == [i \in 1..Len(s) |-> lower_char(s[i])]

\* the strings of the model and their characters
chars ==
    ( "auth.py" :> <<"a", "u", "t", "h", ".", "p", "y">>
   @@ "db.py" :> <<"d", "b", ".", "p", "y">>
   @@ "main.py" :> <<"m", "a", "i", "n", ".", "p", "y">>
   @@ "utils.py" :> <<"u", "t", "i", "l", "s", ".", "p", "y">>
   @@ "tests/test_auth.py" :> <<"t", "e", "s", "t", "s", "/", "t", "e", "s", "t",
                                "_", "a", "u", "t", "h", ".", "p", "y">>
   @@ "login" :> <<"l", "o", "g", "i", "n">>
   @@ "logout" :> <<"l", "o", "g", "o", "u", "t">>
   @@ "test_login" :> <<"t", "e", "s", "t", "_", "l", "o", "g", "i", "n">>
   @@ "auth.login" :> <<"a", "u", "t", "h", ".", "l", "o", "g", "i", "n">>
   @@ "auth.logout" :> <<"a", "u", "t", "h", ".", "l", "o", "g", "o", "u", "t">>
   @@ "None" :> <<"N", "o", "n", "e">>
   @@ "Login user" :> <<"L", "o", "g", "i", "n", " ", "u", "s", "e", "r">>
   @@ "test login" :> <<"t", "e", "s", "t", " ", "l", "o", "g", "i", "n">>
   @@ "test" :> <<"t", "e", "s", "t">>
   @@ "testing" :> <<"t", "e", "s", "t", "i", "n", "g">>
   @@ "spec" :> <<"s", "p", "e", "c">>
   @@ "mock" :> <<"m", "o", "c", "k">>
   @@ "fixture" :> <<"f", "i", "x", "t", "u", "r", "e">>
   @@ "example" :> <<"e", "x", "a", "m", "p", "l", "e">>
   @@ "services/api.py" :> <<"s", "e", "r", "v", "i", "c", "e", "s", "/", "a", "p", "i", ".", "p", "y">>
   @@ "conftest.py" :> <<"c", "o", "n", "f", "t", "e", "s", "t", ".", "p", "y">>
   @@ "connect" :> <<"c", "o", "n", "n", "e", "c", "t">>
   @@ "db.connect" :> <<"d", "b", ".", "c", "o", "n", "n", "e", "c", "t">>
   @@ "how" :> <<"h", "o", "w">>
   @@ "does" :> <<"d", "o", "e", "s">>
   @@ "to" :> <<"t", "o">>
   @@ "what" :> <<"w", "h", "a", "t">>
   @@ "is" :> <<"i", "s">>
   @@ "fix" :> <<"f", "i", "x">>
   @@ "bug" :> <<"b", "u", "g">>
   @@ "error" :> <<"e", "r", "r", "o", "r">>
   @@ "Where" :> <<"W", "h", "e", "r", "e">>
   @@ "work" :> <<"w", "o", "r", "k">>
   @@ "use" :> <<"u", "s", "e">>
   @@ "in" :> <<"i", "n">>
   @@ "why" :> <<"w", "h", "y">>
   @@ "failing" :> <<"f", "a", "i", "l", "i", "n", "g">>
   @@ "find" :> <<"f", "i", "n", "d">>
   @@ "authentication" :> <<"a", "u", "t", "h", "e", "n", "t", "i", "c", "a", "t", "i", "o", "n">>
   @@ "handler" :> <<"h", "a", "n", "d", "l", "e", "r">>
   @@ "repo-1" :> <<"r", "e", "p", "o", "-", "1">>
   @@ "repo-2" :> <<"r", "e", "p", "o", "-", "2">>
   @@ "/r/a" :> <<"/", "r", "/", "a">>
   @@ "/r/b" :> <<"/", "r", "/", "b">>
   @@ "/r/c" :> <<"/", "r", "/", "c">>
   @@ "/r/d" :> <<"/", "r", "/", "d">> )

\* `needle in haystack` on character tuples
contains(haystack, needle) ==
    \E i \in 0..(Len(haystack) - Len(needle)) :
        \A j \in 1..Len(needle) : haystack[i + j] = needle[j]

\* str.split(): the maximal runs of non-blank characters, in order
RECURSIVE split_from(_, _, _)
split_from(s, i, word) ==
    IF i > Len(s)
    THEN IF word = <<>> THEN <<>> ELSE <<word>>
    ELSE IF s[i] = " "
         THEN (IF word = <<>> THEN <<>> ELSE <<word>>) \o split_from(s, i + 1, <<>>)
         ELSE split_from(s, i + 1, Append(word, s[i]))

split(s) == split_from(s, 1, <<>>)

----------------------------------------------------------------------------
(* Regular expressions: re.search(pattern, s) for the pattern shapes of    *)
(* TEST_PATTERNS, CORE_PATTERNS and INTENT_PATTERNS: a sequence of         *)
(* character classes, each taken once, optionally (?) or repeatedly (+),   *)
(* of word boundaries (\b) and of a start anchor (^), with an optional $   *)
(* at the end.  A pattern with a group (a|b) is the list of its            *)
(* alternatives; it matches when one of them does.                         *)

DIGITS == {"0", "1", "2", "3", "4", "5", "6", "7", "8", "9"}
\* \w and \s on the characters of the model
WORD_CHARS == Range(UPPER) \cup Range(LOWER) \cup DIGITS \cup {"_"}
WHITESPACE == {" "}

\* \b at the gap in front of s[i]: a word character on exactly one side
word_boundary(s, i) ==
    (i > 1 /\ s[i - 1] \in WORD_CHARS) # (i <= Len(s) /\ s[i] \in WORD_CHARS)

Boundary == [cs |-> {}, q |-> "b"]
Start == [cs |-> {}, q |-> "^"]
One(cs) == [cs |-> cs, q |-> "1"]
Opt(cs) == [cs |-> cs, q |-> "?"]
Plus(cs) == [cs |-> cs, q |-> "+"]
Lit(w) == [i \in 1..Len(w) |-> One({w[i]})]
Pattern(els, anchored) == [els |-> els, end |-> anchored]

RECURSIVE match_from(_, _, _, _)
match_from(p, k, s, i) ==
    IF k > Len(p.els)
    THEN (~p.end) \/ i = Len(s) + 1
    ELSE LET e == p.els[k]
             here == i <= Len(s) /\ s[i] \in e.cs
         IN  CASE e.q = "1" -> here /\ match_from(p, k + 1, s, i + 1)
               [] e.q = "?" -> \/ here /\ match_from(p, k + 1, s, i + 1)
                               \/ match_from(p, k + 1, s, i)
               [] e.q = "+" -> here /\ (\/ match_from(p, k, s, i + 1)
                                        \/ match_from(p, k + 1, s, i + 1))
               [] e.q = "b" -> word_boundary(s, i) /\ match_from(p, k + 1, s, i)
               [] e.q = "^" -> i = 1 /\ match_from(p, k + 1, s, i)

re_search(p, s) == \E i \in 1..(Len(s) + 1) : match_from(p, 1, s, i)

----------------------------------------------------------------------------
(* Exact arithmetic on non-negative rationals <<numerator, denominator>>   *)

RECURSIVE GCD(_, _)
GCD(a, b) == IF b = 0 THEN a ELSE GCD(b, a % b)

Q(n, d) == LET g == GCD(n, d) IN <<n \div g, d \div g>>
QMul(a, b) == Q(a[1] * b[1], a[2] * b[2])
QAdd(a, b) == Q(a[1] * b[2] + b[1] * a[2], a[2] * b[2])
QDiv(a, b) == Q(a[1] * b[2], a[2] * b[1])

\* sign of a/b - c/d, by continued fractions (no products, no overflow)
RECURSIVE frac_cmp(_, _, _, _)
frac_cmp(a, b, c, d) ==
    LET qa == a \div b
        qc == c \div d
        ra == a % b
        rc == c % d
    IN  IF qa # qc THEN (IF qa < qc THEN -1 ELSE 1)
        ELSE IF ra = 0 /\ rc = 0 THEN 0
        ELSE IF ra = 0 THEN -1
        ELSE IF rc = 0 THEN 1
        ELSE frac_cmp(d, rc, b, ra)

QLt(x, y) == frac_cmp(x[1], x[2], y[1], y[2]) < 0
QLe(x, y) == frac_cmp(x[1], x[2], y[1], y[2]) <= 0
QMin(x, y) == IF QLt(y, x) THEN y ELSE x
QMax(x, y) == IF QLt(x, y) THEN y ELSE x

----------------------------------------------------------------------------
(* Python list and dict helpers *)

\* list[:n] for n >= 0
Take(s, n) == SubSeq(s, 1, IF n < Len(s) THEN n ELSE Len(s))

\* d[k] = v on a dict (a new key is added, an existing one overwritten)
Put(d, k, v) == [x \in (DOMAIN d) \cup {k} |-> IF x = k THEN v ELSE d[x]]

\* list.sort(key=lambda x: x[field], reverse=True): stable, so elements with
\* equal keys keep their relative order.  insert_desc puts x behind every
\* element whose key is >= the key of x.
RECURSIVE insert_desc(_, _, _)
insert_desc(sorted, x, field) ==
    IF sorted = <<>> THEN <<x>>
    ELSE IF QLt(Head(sorted)[field], x[field])
         THEN <<x>> \o sorted
         ELSE <<Head(sorted)>> \o insert_desc(Tail(sorted), x, field)

RECURSIVE sort_desc(_, _)
sort_desc(s, field) ==
    IF s = <<>> THEN <<>>
    ELSE insert_desc(sort_desc(SubSeq(s, 1, Len(s) - 1), field), s[Len(s)], field)

----------------------------------------------------------------------------
(* CodeGraphRanker (code_graph_ranker.py) *)

SLASH_OR_UNDERSCORE == {"/", "_"}
A_TO_Z == Range(LOWER)

TEST_PATTERNS == <<
    Pattern(Lit(<<"t", "e", "s", "t">>) \o <<Opt({"s"}), One(SLASH_OR_UNDERSCORE)>>, FALSE),
    Pattern(<<One(SLASH_OR_UNDERSCORE)>> \o Lit(<<"t", "e", "s", "t">>) \o <<Opt({"s"})>>
            \o Lit(<<".", "p", "y">>), TRUE),
    Pattern(Lit(<<".", "t", "e", "s", "t", ".">>) \o <<One({"j", "t"}), One({"s"}), Opt({"x"})>>, TRUE),
    Pattern(Lit(<<".", "s", "p", "e", "c", ".">>) \o <<One({"j", "t"}), One({"s"}), Opt({"x"})>>, TRUE),
    Pattern(Lit(<<"_", "_", "t", "e", "s", "t", "s", "_", "_">>), FALSE),
    Pattern(Lit(<<"c", "o", "n", "f", "t", "e", "s", "t", ".", "p", "y">>), TRUE),
    Pattern(Lit(<<"f", "i", "x", "t", "u", "r", "e">>) \o <<Opt({"s"}), One(SLASH_OR_UNDERSCORE)>>, FALSE),
    Pattern(Lit(<<"m", "o", "c", "k">>) \o <<Opt({"s"}), One(SLASH_OR_UNDERSCORE)>>, FALSE) >>

CORE_PATTERNS == <<
    Pattern(Lit(<<"m", "a", "i", "n", ".">>) \o <<Plus(A_TO_Z)>>, TRUE),
    Pattern(Lit(<<"i", "n", "d", "e", "x", ".">>) \o <<Plus(A_TO_Z)>>, TRUE),
    Pattern(Lit(<<"a", "p", "p", ".">>) \o <<Plus(A_TO_Z)>>, TRUE),
    Pattern(Lit(<<"s", "e", "r", "v", "e", "r", ".">>) \o <<Plus(A_TO_Z)>>, TRUE),
    Pattern(Lit(<<"a", "p", "i", ".">>) \o <<Plus(A_TO_Z)>>, TRUE),
    Pattern(Lit(<<"r", "o", "u", "t", "e">>) \o <<Opt({"s"}), One({"."}), Plus(A_TO_Z)>>, TRUE),
    Pattern(Lit(<<"m", "o", "d", "e", "l">>) \o <<Opt({"s"}), One({"."}), Plus(A_TO_Z)>>, TRUE),
    Pattern(Lit(<<"s", "e", "r", "v", "i", "c", "e">>) \o <<Opt({"s"}), One(SLASH_OR_UNDERSCORE)>>, FALSE),
    Pattern(Lit(<<"c", "o", "n", "t", "r", "o", "l", "l", "e", "r">>) \o <<Opt({"s"}), One(SLASH_OR_UNDERSCORE)>>, FALSE) >>

TEST_FILE_PENALTY == <<1, 2>>
CORE_FILE_BOOST == <<13, 10>>
HIGH_DEPENDENCY_BOOST == <<3, 2>>

\* any(re.search(pattern, text.lower()) for pattern in patterns)
matches_any(patterns, text) ==
    \E i \in DOMAIN patterns : re_search(patterns[i], lower(text))

\* the two classifications, tabulated once for the strings of the model
test_file_table == [s \in DOMAIN chars |-> matches_any(TEST_PATTERNS, chars[s])]
core_file_table == [s \in DOMAIN chars |-> matches_any(CORE_PATTERNS, chars[s])]

_is_test_file(file_path) == test_file_table[file_path]

_is_core_file(file_path) == core_file_table[file_path]

\* number of positions of the list deps that hold f
occurrences(deps, f) == Cardinality({i \in DOMAIN deps : deps[i] = f})

\* dependent_counts.get(f, 0): summed over the keys of file_dependencies
RECURSIVE count_dependents(_, _, _)
count_dependents(file_dependencies, keys, f) ==
    IF keys = {} THEN 0
    ELSE LET k == CHOOSE k \in keys : TRUE
         IN  occurrences(file_dependencies[k], f)
             + count_dependents(file_dependencies, keys \ {k}, f)

dependent_count(file_dependencies, f) ==
    count_dependents(file_dependencies, DOMAIN file_dependencies, f)

\* the keys of the dict dependent_counts
dependent_keys(file_dependencies) ==
    UNION {Range(file_dependencies[k]) : k \in DOMAIN file_dependencies}

max_dependents(file_dependencies) ==
    LET counted == dependent_keys(file_dependencies)
    IN  IF counted = {} THEN 1
        ELSE CHOOSE m \in {dependent_count(file_dependencies, f) : f \in counted} :
                 \A f \in counted : dependent_count(file_dependencies, f) <= m

\* all_files without the files that only appear as dependencies
all_files_keys_only(file_dependencies) == DOMAIN file_dependencies

all_files(file_dependencies) ==
    (DOMAIN file_dependencies) \cup dependent_keys(file_dependencies)

\* importance_score with the high-dependency boost only above five dependents
importance_score_above_five(file_dependencies, file_path) ==
    LET dep_count == dependent_count(file_dependencies, file_path)
        maxd == max_dependents(file_dependencies)
        base_score == IF maxd > 0 THEN Q(dep_count, maxd) ELSE <<0, 1>>
        s0 == QAdd(<<3, 10>>, QMul(base_score, <<7, 10>>))
        s1 == IF _is_test_file(file_path) THEN QMul(s0, TEST_FILE_PENALTY) ELSE s0
        s2 == IF _is_core_file(file_path) THEN QMul(s1, CORE_FILE_BOOST) ELSE s1
        s3 == IF dep_count > 5 THEN QMul(s2, HIGH_DEPENDENCY_BOOST) ELSE s2
    IN  QMin(<<1, 1>>, QMax(<<0, 1>>, s3))

\* the score of one file: lines 97-117
importance_score(file_dependencies, file_path) ==
    LET dep_count == dependent_count(file_dependencies, file_path)
        maxd == max_dependents(file_dependencies)
        base_score == IF maxd > 0 THEN Q(dep_count, maxd) ELSE <<0, 1>>
        s0 == QAdd(<<3, 10>>, QMul(base_score, <<7, 10>>))
        s1 == IF _is_test_file(file_path) THEN QMul(s0, TEST_FILE_PENALTY) ELSE s0
        s2 == IF _is_core_file(file_path) THEN QMul(s1, CORE_FILE_BOOST) ELSE s1
        s3 == IF dep_count >= 5 THEN QMul(s2, HIGH_DEPENDENCY_BOOST) ELSE s2
    IN  QMin(<<1, 1>>, QMax(<<0, 1>>, s3))

\* the importance map a cache miss computes: lines 83-125
compute_importance(file_dependencies) ==
    [f \in all_files(file_dependencies) |->
        [file_path |-> f,
         importance_score |-> importance_score(file_dependencies, f),
         dependent_count |-> dependent_count(file_dependencies, f),
         is_test_file |-> _is_test_file(f),
         is_exported |-> _is_core_file(f)]]

\* calculate_importance that recomputes on every call
calculate_importance_uncached(cache, repo_id, file_dependencies) ==
    LET importance_map == compute_importance(file_dependencies)
    IN  [map |-> importance_map, cache |-> Put(cache, repo_id, importance_map)]

\* calculate_importance: the returned map and the cache afterwards
calculate_importance(cache, repo_id, file_dependencies) ==
    IF repo_id \in DOMAIN cache
    THEN [map |-> cache[repo_id], cache |-> cache]
    ELSE LET importance_map == compute_importance(file_dependencies)
         IN  [map |-> importance_map, cache |-> Put(cache, repo_id, importance_map)]

\* the new score without the penalty for unwanted test files
boosted_score_unpenalised(result, importance_map, include_tests) ==
    LET file_path == result.file_path
        original_score == result.score
    IN  IF file_path \in DOMAIN importance_map
        THEN QMul(original_score,
                  QAdd(<<1, 2>>, QMul(importance_map[file_path].importance_score, <<1, 2>>)))
        ELSE QMul(original_score, <<8, 10>>)

\* the new score boost_results gives one result: lines 170-191
boosted_score(result, importance_map, include_tests) ==
    LET file_path == result.file_path
        original_score == result.score
    IN  IF file_path \in DOMAIN importance_map
        THEN LET importance == importance_map[file_path]
                 factor == QAdd(<<1, 2>>, QMul(importance.importance_score, <<1, 2>>))
                 boost_factor == IF importance.is_test_file /\ ~include_tests
                                 THEN QMul(factor, <<3, 10>>) ELSE factor
             IN  QMul(original_score, boost_factor)
        ELSE IF _is_test_file(file_path) /\ ~include_tests
             THEN QMul(original_score, <<3, 10>>)
             ELSE QMul(original_score, <<8, 10>>)

boost_one(result, importance_map, include_tests) ==
    LET file_path == result.file_path
        r1 == Put(result, "score", boosted_score(result, importance_map, include_tests))
        r2 == Put(r1, "original_score", result.score)
    IN  Put(r2, "is_test_file",
            IF file_path \in DOMAIN importance_map
            THEN importance_map[file_path].is_test_file
            ELSE _is_test_file(file_path))

\* boost_results without the final sort
boost_results_unsorted(results, importance_map, include_tests) ==
    [i \in 1..Len(results) |-> boost_one(results[i], importance_map, include_tests)]

\* the caller's list after boost_results: every result is copied before it
\* is changed (line 193) and the sort is on the new list (line 201)
boost_results_input(results) == results

boost_results(results, importance_map, include_tests) ==
    sort_desc([i \in 1..Len(results) |->
                  boost_one(results[i], importance_map, include_tests)], "score")

is_not_test_result(result) == ~_is_test_file(result.file_path)

filter_test_files(results, include_tests) ==
    IF include_tests THEN results ELSE SelectSeq(results, is_not_test_result)

----------------------------------------------------------------------------
(* The inputs of the model *)

\* Python's None; an f-string renders it as the text None
None == "None"

\* metadata of the vectors the index holds (the fields the ranking reads)
CandLogin ==
    [name |-> "login", qualified_name |-> "auth.login",
     file_path |-> "auth.py", summary |-> None]
CandLogout ==
    [name |-> "logout", qualified_name |-> "auth.logout",
     file_path |-> "auth.py", summary |-> None]
CandTestLogin ==
    [name |-> "test_login", qualified_name |-> "test_login",
     file_path |-> "tests/test_auth.py", summary |-> None]
CandConnect ==
    [name |-> "connect", qualified_name |-> "db.connect",
     file_path |-> "services/api.py", summary |-> None]

Candidates == {CandLogin, CandLogout, CandTestLogin}

\* similarity scores the vector store reports
MatchScores == {<<9, 10>>, <<4, 5>>}

Matches == [metadata : Candidates, score : MatchScores]

\* what the index holds for one query and repository: a ranked list of
\* distinct vectors, best first (equal scores in either order)
IndexContents ==
    UNION {{m \in [1..n -> Matches] :
               /\ \A i, j \in 1..n : i # j => m[i].metadata # m[j].metadata
               /\ \A i \in 1..(n - 1) : QLe(m[i + 1].score, m[i].score)}
           : n \in 0..MaxMatches}

\* index.query(top_k=n): the n best matches
index_query(index_matches, top_k) == Take(index_matches, top_k)

Queries == {"Login user", "test login"}
Repos == {"repo-1"}

\* the dependency map of the importance scenario
ExampleDeps ==
    ( "main.py" :> <<"auth.py", "db.py">>
   @@ "auth.py" :> <<"utils.py">>
   @@ "db.py" :> <<"utils.py">>
   @@ "tests/test_auth.py" :> <<"auth.py">> )

\* generated dependency maps: some of the first MaxDepFiles files are keys,
\* each listing none, one or both of two hub files
DepFileList ==
    <<"utils.py", "main.py", "tests/test_auth.py", "auth.py", "db.py",
      "services/api.py", "conftest.py">>
DepFiles == {DepFileList[i] : i \in 1..MaxDepFiles}
Hubs == {<<"utils.py", "main.py">>, <<"tests/test_auth.py", "utils.py">>}
HubLists(h) == {<<>>, <<h[1]>>, <<h[2]>>, <<h[1], h[2]>>}
GeneratedDeps ==
    UNION {[keys -> HubLists(h)] : keys \in SUBSET DepFiles, h \in Hubs}

\* file_dependencies=None (or an empty dict): both are falsy
NoDeps == <<>>

\* SearchConfig.rerank_top_n
DEFAULT_RERANK_TOP_N == 50

SearchConfigs ==
    [include_tests : BOOLEAN, use_code_graph : BOOLEAN, use_reranking : BOOLEAN,
     use_query_expansion : {TRUE}, top_k : 1..MaxTopK,
     rerank_top_n : {DEFAULT_RERANK_TOP_N}]

\* what a rerank call does: it raises, it returns an object without a result
\* list (malformed), or it returns a list of (index, relevance_score) items,
\* each document at most once; an index may lie one past the end of the
\* submitted list
RerankItems == [index : 0..MaxMatches, relevance_score : {<<1, 200>>, <<1, 2>>}]
RerankOutcomes ==
    {[kind |-> "raises", results |-> <<>>], [kind |-> "malformed", results |-> <<>>]}
    \cup {[kind |-> "returns", results |-> r] :
             r \in UNION {{l \in [1..n -> RerankItems] :
                              \A i, j \in 1..n : i # j => l[i].index # l[j].index}
                          : n \in 0..MaxRerankItems}}
NoRerank == [kind |-> "none", results |-> <<>>]

----------------------------------------------------------------------------
(* QueryUnderstanding (query_understanding.py) *)

TEST_INCLUDE_TERMS == <<"test", "testing", "spec", "mock", "fixture", "example">>

\* QueryIntent, in the order the keys of INTENT_PATTERNS are declared
INTENTS == <<"EXPLAIN_CODE", "FIND_USAGE", "FIND_DEFINITION", "DEBUG">>
FIND_IMPLEMENTATION == "FIND_IMPLEMENTATION"

\* the regular expressions of one intent; each is the list of its alternatives
EXPLAIN_CODE_PATTERNS ==
    << <<Pattern(<<Boundary>> \o Lit(<<"h", "o", "w">>) \o <<Plus(WHITESPACE)>> \o Lit(<<"d", "o", "e", "s">>) \o <<Boundary>>, FALSE),
               Pattern(<<Boundary>> \o Lit(<<"h", "o", "w">>) \o <<Plus(WHITESPACE)>> \o Lit(<<"d", "o">>) \o <<Boundary>>, FALSE),
               Pattern(<<Boundary>> \o Lit(<<"h", "o", "w">>) \o <<Plus(WHITESPACE)>> \o Lit(<<"i", "s">>) \o <<Boundary>>, FALSE),
               Pattern(<<Boundary>> \o Lit(<<"h", "o", "w">>) \o <<Plus(WHITESPACE)>> \o Lit(<<"a", "r", "e">>) \o <<Boundary>>, FALSE)>>,
       <<Pattern(<<Boundary>> \o Lit(<<"e", "x", "p", "l", "a", "i", "n">>) \o <<Boundary>>, FALSE)>>,
       <<Pattern(<<Boundary>> \o Lit(<<"w", "h", "a", "t">>) \o <<Plus(WHITESPACE)>> \o Lit(<<"d", "o", "e", "s">>) \o <<Boundary>>, FALSE),
               Pattern(<<Boundary>> \o Lit(<<"w", "h", "a", "t">>) \o <<Plus(WHITESPACE)>> \o Lit(<<"i", "s">>) \o <<Boundary>>, FALSE),
               Pattern(<<Boundary>> \o Lit(<<"w", "h", "a", "t">>) \o <<Plus(WHITESPACE)>> \o Lit(<<"a", "r", "e">>) \o <<Boundary>>, FALSE)>>,
       <<Pattern(<<Boundary>> \o Lit(<<"u", "n", "d", "e", "r", "s", "t", "a", "n", "d">>) \o <<Boundary>>, FALSE)>>,
       <<Pattern(<<Boundary>> \o Lit(<<"d", "e", "s", "c", "r", "i", "b", "e">>) \o <<Boundary>>, FALSE)>> >>

FIND_USAGE_PATTERNS ==
    << <<Pattern(<<Boundary>> \o Lit(<<"h", "o", "w">>) \o <<Plus(WHITESPACE)>> \o Lit(<<"t", "o">>) \o <<Boundary>>, FALSE)>>,
       <<Pattern(<<Boundary>> \o Lit(<<"e", "x", "a", "m", "p", "l", "e">>) \o <<Opt({"s"}), Boundary>>, FALSE)>>,
       <<Pattern(<<Boundary>> \o Lit(<<"u", "s", "e">>) \o <<Plus(WHITESPACE)>> \o Lit(<<"c", "a", "s", "e">>) \o <<Boundary>>, FALSE)>>,
       <<Pattern(<<Boundary>> \o Lit(<<"u", "s", "a", "g", "e">>) \o <<Boundary>>, FALSE)>>,
       <<Pattern(<<Boundary>> \o Lit(<<"d", "e", "m", "o", "n", "s", "t", "r", "a", "t">>), FALSE)>> >>

FIND_DEFINITION_PATTERNS ==
    << <<Pattern(<<Boundary>> \o Lit(<<"d", "e", "f", "i", "n", "e">>) \o <<Boundary>>, FALSE),
               Pattern(<<Boundary>> \o Lit(<<"d", "e", "f", "i", "n", "i", "t", "i", "o", "n">>) \o <<Boundary>>, FALSE)>>,
       <<Pattern(<<Boundary>> \o Lit(<<"w", "h", "a", "t">>) \o <<Plus(WHITESPACE)>> \o Lit(<<"i", "s">>) \o <<Boundary>>, FALSE)>>,
       <<Pattern(<<Start>> \o Lit(<<"w", "h", "e", "r", "e">>) \o <<Plus(WHITESPACE)>> \o Lit(<<"i", "s">>) \o <<Boundary>>, FALSE)>>,
       <<Pattern(<<Boundary>> \o Lit(<<"c", "l", "a", "s", "s">>) \o <<Plus(WHITESPACE)>> \o Lit(<<"f", "o", "r">>) \o <<Boundary>>, FALSE)>>,
       <<Pattern(<<Boundary>> \o Lit(<<"f", "u", "n", "c", "t", "i", "o", "n">>) \o <<Plus(WHITESPACE)>> \o Lit(<<"f", "o", "r">>) \o <<Boundary>>, FALSE)>> >>

DEBUG_PATTERNS ==
    << <<Pattern(<<Boundary>> \o Lit(<<"f", "i", "x">>) \o <<Boundary>>, FALSE)>>,
       <<Pattern(<<Boundary>> \o Lit(<<"b", "u", "g">>) \o <<Boundary>>, FALSE)>>,
       <<Pattern(<<Boundary>> \o Lit(<<"e", "r", "r", "o", "r">>) \o <<Boundary>>, FALSE)>>,
       <<Pattern(<<Boundary>> \o Lit(<<"f", "a", "i", "l">>), FALSE)>>,
       <<Pattern(<<Boundary>> \o Lit(<<"w", "h", "y">>) \o <<Plus(WHITESPACE)>> \o Lit(<<"i", "s">>) \o <<Boundary>>, FALSE),
               Pattern(<<Boundary>> \o Lit(<<"w", "h", "y">>) \o <<Plus(WHITESPACE)>> \o Lit(<<"d", "o", "e", "s">>) \o <<Boundary>>, FALSE),
               Pattern(<<Boundary>> \o Lit(<<"w", "h", "y">>) \o <<Plus(WHITESPACE)>> \o Lit(<<"d", "o">>) \o <<Boundary>>, FALSE)>>,
       <<Pattern(<<Boundary>> \o Lit(<<"n", "o", "t">>) \o <<Plus(WHITESPACE)>> \o Lit(<<"w", "o", "r", "k", "i", "n", "g">>) \o <<Boundary>>, FALSE)>>,
       <<Pattern(<<Boundary>> \o Lit(<<"i", "s", "s", "u", "e">>) \o <<Boundary>>, FALSE)>> >>

INTENT_PATTERNS ==
    [EXPLAIN_CODE |-> EXPLAIN_CODE_PATTERNS, FIND_USAGE |-> FIND_USAGE_PATTERNS,
     FIND_DEFINITION |-> FIND_DEFINITION_PATTERNS, DEBUG |-> DEBUG_PATTERNS]

\* str.strip(): blanks at both ends removed
RECURSIVE lstrip(_)
lstrip(s) == IF s # <<>> /\ Head(s) \in WHITESPACE THEN lstrip(Tail(s)) ELSE s

RECURSIVE rstrip(_)
rstrip(s) ==
    IF s # <<>> /\ s[Len(s)] \in WHITESPACE THEN rstrip(SubSeq(s, 1, Len(s) - 1)) ELSE s

strip(s) == rstrip(lstrip(s))

\* the number of patterns of the intent that re.search finds in the query
intent_score(intent, query) ==
    Cardinality({i \in DOMAIN INTENT_PATTERNS[intent] :
                    \E a \in DOMAIN INTENT_PATTERNS[intent][i] :
                        re_search(INTENT_PATTERNS[intent][i][a], query)})

\* max(scores, key=scores.get): the first key, in declaration order, among
\* those with the largest score
best_intent(query) ==
    LET first == CHOOSE k \in DOMAIN INTENTS :
                    /\ \A j \in DOMAIN INTENTS :
                          intent_score(INTENTS[j], query) <= intent_score(INTENTS[k], query)
                    /\ \A j \in 1..(k - 1) :
                          intent_score(INTENTS[j], query) < intent_score(INTENTS[k], query)
    IN  INTENTS[first]

\* the confidence without the cap at 1.0
intent_confidence_unclamped(score) == Q(score, 2)

\* min(1.0, score / 2): line 171
intent_confidence(score) == QMin(<<1, 1>>, Q(score, 2))

\* _detect_intent: lines 156-175
_detect_intent(query) ==
    LET best == best_intent(query)
        score == intent_score(best, query)
    IN  IF score > 0
        THEN [intent |-> best, confidence |-> intent_confidence(score)]
        ELSE [intent |-> FIND_IMPLEMENTATION, confidence |-> <<1, 2>>]

\* `term in query_lower` for one of TEST_INCLUDE_TERMS: lines 249-255
contains_test_term(query) ==
    \E i \in DOMAIN TEST_INCLUDE_TERMS :
        contains(lower(query), chars[TEST_INCLUDE_TERMS[i]])

\* analyze, as far as the ranking and the intent go: lines 121-146
analyze(query) ==
    LET query_lower == strip(lower(query))
        detected == _detect_intent(query_lower)
    IN  [intent |-> detected.intent, confidence |-> detected.confidence,
         should_include_tests |-> contains_test_term(query_lower)]

\* _should_include_tests on a query of the search model
_should_include_tests(query) == contains_test_term(chars[query])

\* CODE_SYNONYMS (lines 73-107), in declaration order
CODE_SYNONYMS ==
    << [term |-> <<"a", "u", "t", "h">>,
        synonyms |-> <<
            <<"a", "u", "t", "h", "e", "n", "t", "i", "c", "a", "t", "i", "o", "n">>,
            <<"a", "u", "t", "h", "o", "r", "i", "z", "e">>,
            <<"l", "o", "g", "i", "n">>,
            <<"c", "r", "e", "d", "e", "n", "t", "i", "a", "l">>,
            <<"t", "o", "k", "e", "n">>,
            <<"s", "e", "s", "s", "i", "o", "n">> >>],
       [term |-> <<"a", "u", "t", "h", "e", "n", "t", "i", "c", "a", "t", "i", "o", "n">>,
        synonyms |-> <<
            <<"a", "u", "t", "h">>,
            <<"l", "o", "g", "i", "n">>,
            <<"c", "r", "e", "d", "e", "n", "t", "i", "a", "l">>,
            <<"a", "u", "t", "h", "e", "n", "t", "i", "c", "a", "t", "e">> >>],
       [term |-> <<"l", "o", "g", "i", "n">>,
        synonyms |-> <<
            <<"a", "u", "t", "h">>,
            <<"a", "u", "t", "h", "e", "n", "t", "i", "c", "a", "t", "e">>,
            <<"s", "i", "g", "n", "_", "i", "n">>,
            <<"s", "i", "g", "n", "i", "n">> >>],
       [term |-> <<"j", "s", "o", "n">>,
        synonyms |-> <<
            <<"J", "S", "O", "N", "R", "e", "s", "p", "o", "n", "s", "e">>,
            <<"j", "s", "o", "n", "_", "r", "e", "s", "p", "o", "n", "s", "e">>,
            <<"a", "p", "p", "l", "i", "c", "a", "t", "i", "o", "n", "/", "j", "s", "o", "n">>,
            <<"s", "e", "r", "i", "a", "l", "i", "z", "e">>,
            <<"d", "u", "m", "p">> >>],
       [term |-> <<"r", "e", "s", "p", "o", "n", "s", "e">>,
        synonyms |-> <<
            <<"R", "e", "s", "p", "o", "n", "s", "e">>,
            <<"J", "S", "O", "N", "R", "e", "s", "p", "o", "n", "s", "e">>,
            <<"H", "T", "M", "L", "R", "e", "s", "p", "o", "n", "s", "e">>,
            <<"r", "e", "t", "u", "r", "n">> >>],
       [term |-> <<"r", "e", "q", "u", "e", "s", "t">>,
        synonyms |-> <<
            <<"R", "e", "q", "u", "e", "s", "t">>,
            <<"h", "t", "t", "p", "_", "r", "e", "q", "u", "e", "s", "t">>,
            <<"i", "n", "c", "o", "m", "i", "n", "g">> >>],
       [term |-> <<"e", "r", "r", "o", "r">>,
        synonyms |-> <<
            <<"e", "x", "c", "e", "p", "t", "i", "o", "n">>,
            <<"e", "r", "r", "o", "r", "_", "h", "a", "n", "d", "l", "e", "r">>,
            <<"c", "a", "t", "c", "h">>,
            <<"r", "a", "i", "s", "e">>,
            <<"t", "h", "r", "o", "w">> >>],
       [term |-> <<"e", "x", "c", "e", "p", "t", "i", "o", "n">>,
        synonyms |-> <<
            <<"e", "r", "r", "o", "r">>,
            <<"r", "a", "i", "s", "e">>,
            <<"c", "a", "t", "c", "h">>,
            <<"t", "r", "y">>,
            <<"e", "x", "c", "e", "p", "t">> >>],
       [term |-> <<"h", "a", "n", "d", "l", "e">>,
        synonyms |-> <<
            <<"h", "a", "n", "d", "l", "e", "r">>,
            <<"p", "r", "o", "c", "e", "s", "s">>,
            <<"m", "a", "n", "a", "g", "e">>,
            <<"c", "a", "t", "c", "h">> >>],
       [term |-> <<"w", "e", "b", "s", "o", "c", "k", "e", "t">>,
        synonyms |-> <<
            <<"W", "e", "b", "S", "o", "c", "k", "e", "t">>,
            <<"w", "s">>,
            <<"s", "o", "c", "k", "e", "t">>,
            <<"r", "e", "a", "l", "t", "i", "m", "e">> >>],
       [term |-> <<"m", "i", "d", "d", "l", "e", "w", "a", "r", "e">>,
        synonyms |-> <<
            <<"M", "i", "d", "d", "l", "e", "w", "a", "r", "e">>,
            <<"d", "i", "s", "p", "a", "t", "c", "h">>,
            <<"b", "e", "f", "o", "r", "e", "_", "r", "e", "q", "u", "e", "s", "t">>,
            <<"a", "f", "t", "e", "r", "_", "r", "e", "q", "u", "e", "s", "t">> >>],
       [term |-> <<"r", "o", "u", "t", "e">>,
        synonyms |-> <<
            <<"r", "o", "u", "t", "e", "r">>,
            <<"e", "n", "d", "p", "o", "i", "n", "t">>,
            <<"p", "a", "t", "h">>,
            <<"u", "r", "l">>,
            <<"d", "e", "c", "o", "r", "a", "t", "o", "r">> >>],
       [term |-> <<"e", "n", "d", "p", "o", "i", "n", "t">>,
        synonyms |-> <<
            <<"r", "o", "u", "t", "e">>,
            <<"p", "a", "t", "h">>,
            <<"a", "p", "i">>,
            <<"h", "a", "n", "d", "l", "e", "r">> >>],
       [term |-> <<"d", "a", "t", "a", "b", "a", "s", "e">>,
        synonyms |-> <<
            <<"d", "b">>,
            <<"q", "u", "e", "r", "y">>,
            <<"s", "q", "l">>,
            <<"o", "r", "m">>,
            <<"m", "o", "d", "e", "l">> >>],
       [term |-> <<"q", "u", "e", "r", "y">>,
        synonyms |-> <<
            <<"s", "e", "l", "e", "c", "t">>,
            <<"f", "i", "n", "d">>,
            <<"f", "i", "l", "t", "e", "r">>,
            <<"w", "h", "e", "r", "e">> >>],
       [term |-> <<"v", "a", "l", "i", "d", "a", "t", "e">>,
        synonyms |-> <<
            <<"v", "a", "l", "i", "d", "a", "t", "i", "o", "n">>,
            <<"v", "a", "l", "i", "d", "a", "t", "o", "r">>,
            <<"c", "h", "e", "c", "k">>,
            <<"v", "e", "r", "i", "f", "y">>,
            <<"s", "a", "n", "i", "t", "i", "z", "e">> >>],
       [term |-> <<"v", "a", "l", "i", "d", "a", "t", "i", "o", "n">>,
        synonyms |-> <<
            <<"v", "a", "l", "i", "d", "a", "t", "e">>,
            <<"v", "a", "l", "i", "d", "a", "t", "o", "r">>,
            <<"s", "c", "h", "e", "m", "a">>,
            <<"p", "y", "d", "a", "n", "t", "i", "c">> >>],
       [term |-> <<"c", "r", "e", "a", "t", "e">>,
        synonyms |-> <<
            <<"n", "e", "w">>,
            <<"i", "n", "i", "t">>,
            <<"c", "o", "n", "s", "t", "r", "u", "c", "t", "o", "r">>,
            <<"b", "u", "i", "l", "d">>,
            <<"m", "a", "k", "e">> >>],
       [term |-> <<"d", "e", "l", "e", "t", "e">>,
        synonyms |-> <<
            <<"r", "e", "m", "o", "v", "e">>,
            <<"d", "e", "s", "t", "r", "o", "y">>,
            <<"d", "r", "o", "p">>,
            <<"c", "l", "e", "a", "r">> >>],
       [term |-> <<"u", "p", "d", "a", "t", "e">>,
        synonyms |-> <<
            <<"m", "o", "d", "i", "f", "y">>,
            <<"c", "h", "a", "n", "g", "e">>,
            <<"e", "d", "i", "t">>,
            <<"p", "a", "t", "c", "h">>,
            <<"p", "u", "t">> >>],
       [term |-> <<"g", "e", "t">>,
        synonyms |-> <<
            <<"f", "e", "t", "c", "h">>,
            <<"r", "e", "t", "r", "i", "e", "v", "e">>,
            <<"f", "i", "n", "d">>,
            <<"l", "o", "a", "d">>,
            <<"r", "e", "a", "d">> >>] >>

\* CODE_SYNONYMS.get(word, []): the synonyms of a key, nothing for another word
synonyms_of(word) ==
    IF \E k \in DOMAIN CODE_SYNONYMS : CODE_SYNONYMS[k].term = word
    THEN CODE_SYNONYMS[CHOOSE k \in DOMAIN CODE_SYNONYMS :
                           CODE_SYNONYMS[k].term = word].synonyms
    ELSE <<>>

\* the last position of the run of characters of class cs that starts at i
\* (i - 1 when there is none)
RECURSIVE run_end(_, _, _)
run_end(w, i, cs) ==
    IF i <= Len(w) /\ w[i] \in cs THEN run_end(w, i + 1, cs) ELSE i - 1

\* w from position i on is ([A-Z][a-z]+)* and has two or more such parts with
\* the n before i: the pattern [A-Z][a-z]+(?:[A-Z][a-z]+)+ of line 205
RECURSIVE camel_from(_, _, _)
camel_from(w, i, n) ==
    IF i > Len(w) THEN n >= 2
    ELSE /\ w[i] \in Range(UPPER)
         /\ run_end(w, i + 1, Range(LOWER)) >= i + 1
         /\ camel_from(w, run_end(w, i + 1, Range(LOWER)) + 1, n + 1)

\* w from position i on is [a-z]+(_[a-z]+)* with at least one underscore
\* part counting the n before i: the pattern [a-z]+(?:_[a-z]+)+ of line 206
RECURSIVE snake_from(_, _, _)
snake_from(w, i, n) ==
    LET j == run_end(w, i, Range(LOWER))
    IN  /\ j >= i
        /\ IF j = Len(w) THEN n >= 1
           ELSE w[j + 1] = "_" /\ snake_from(w, j + 2, n + 1)

\* the stretches of s between two word boundaries that hold word characters
\* only: what \b...\b can match when the pattern has word characters only
word_runs(s) ==
    {SubSeq(s, p[1], p[2]) :
        p \in {q \in (1..Len(s)) \X (1..Len(s)) :
                  /\ q[1] <= q[2]
                  /\ word_boundary(s, q[1])
                  /\ word_boundary(s, q[2] + 1)
                  /\ \A k \in q[1]..q[2] : s[k] \in WORD_CHARS}}

\* lines 200-215: the set behind list(set(code_terms))
_extract_code_terms(query) ==
    {w \in word_runs(query) : camel_from(w, 1, 0)}
    \cup {w \in word_runs(query) : snake_from(w, 1, 0)}
    \cup {CODE_SYNONYMS[k].term : k \in {k \in DOMAIN CODE_SYNONYMS :
                                            contains(query, lower(CODE_SYNONYMS[k].term))}}

\* lines 219-233: the query followed by three synonyms per code term and two
\* per word of the query
RECURSIVE synonym_parts(_, _)
synonym_parts(terms, n) ==
    IF terms = <<>> THEN <<>>
    ELSE Take(synonyms_of(lower(Head(terms))), n) \o synonym_parts(Tail(terms), n)

expanded_parts(query, code_terms) ==
    <<query>> \o synonym_parts(code_terms, 3) \o synonym_parts(split(lower(query)), 2)

\* lines 236-242: the parts whose lowercase form was not seen before
RECURSIVE unique_parts(_, _)
unique_parts(parts, seen) ==
    IF parts = <<>> THEN <<>>
    ELSE IF lower(Head(parts)) \in seen THEN unique_parts(Tail(parts), seen)
    ELSE <<Head(parts)>> \o unique_parts(Tail(parts), seen \cup {lower(Head(parts))})

\* ' '.join(parts)
RECURSIVE join(_)
join(parts) ==
    IF parts = <<>> THEN <<>>
    ELSE IF Len(parts) = 1 THEN parts[1]
    ELSE parts[1] \o <<" ">> \o join(Tail(parts))

\* lines 218-245
_expand_query(query, code_terms) ==
    join(unique_parts(expanded_parts(query, code_terms), {}))

----------------------------------------------------------------------------
(* SearchEngineV3 (search_engine.py) *)

\* the result dict built from one match: lines 209-223
to_result(match) ==
    [name |-> match.metadata.name,
     qualified_name |-> match.metadata.qualified_name,
     file_path |-> match.metadata.file_path,
     summary |-> match.metadata.summary,
     score |-> match.score]

\* the lowercased text f"{name} {qualified_name} {summary}"
boost_text(result) ==
    lower(chars[result.name] \o <<" ">> \o chars[result.qualified_name]
          \o <<" ">> \o chars[result.summary])

keyword_matches(result, query) ==
    Cardinality({term \in Range(split(lower(chars[query]))) :
                    contains(boost_text(result), term)})

bm25_boosted(result, query) ==
    LET matches == keyword_matches(result, query)
    IN  IF matches > 0
        THEN Put(result, "score", QMul(result.score, Q(10 + matches, 10)))
        ELSE result

_apply_bm25_boost(results, query) ==
    sort_desc([i \in 1..Len(results) |-> bm25_boosted(results[i], query)], "score")

\* _hybrid_search after a successful embedding: lines 193-228
_hybrid_search(original_query, index_matches, top_k) ==
    LET matches == index_query(index_matches, top_k)
    IN  IF matches = <<>> THEN <<>>
        ELSE _apply_bm25_boost([i \in 1..Len(matches) |-> to_result(matches[i])],
                               original_query)

\* include_tests taken from the config alone
effective_include_tests_config_only(config, query) == config.include_tests

\* include_tests of the pipeline: line 118
effective_include_tests(config, query) ==
    config.include_tests \/ analyze(chars[query]).should_include_tests

\* top_k passed to _hybrid_search: line 129
pool_size(config) ==
    IF config.use_reranking THEN config.rerank_top_n ELSE config.top_k

\* step 4 taken whenever the config asks for it, map or no map
uses_code_graph_without_map(config, file_dependencies) == config.use_code_graph

\* step 4: lines 137-147
uses_code_graph(config, file_dependencies) ==
    config.use_code_graph /\ file_dependencies # NoDeps

code_graph_stage(cache, repo_id, results, config, file_dependencies, include_tests) ==
    IF uses_code_graph(config, file_dependencies)
    THEN LET ci == calculate_importance(cache, repo_id, file_dependencies)
         IN  [results |-> boost_results(results, ci.map, include_tests),
              cache |-> ci.cache,
              calls |-> <<"calculate_importance", "boost_results">>]
    ELSE IF ~include_tests
         THEN [results |-> filter_test_files(results, include_tests),
               cache |-> cache, calls |-> <<"filter_test_files">>]
         ELSE [results |-> results, cache |-> cache, calls |-> <<>>]

\* the condition of step 5 without the test on the number of results
wants_rerank_any_length(cohere_client, config, pro_user, results) ==
    config.use_reranking /\ cohere_client /\ pro_user

\* the condition of step 5: line 151
wants_rerank(cohere_client, config, pro_user, results) ==
    config.use_reranking /\ cohere_client /\ pro_user /\ Len(results) > 1

\* no threshold at all
MIN_RELEVANCE_zero == <<0, 1>>

\* MIN_RELEVANCE = 0.01: line 292
MIN_RELEVANCE == <<1, 100>>

\* the loop over rerank_response.results: lines 311-326
RECURSIVE reranked_list(_, _)
reranked_list(items, results) ==
    IF items = <<>> THEN <<>>
    ELSE LET item == Head(items)
             rest == reranked_list(Tail(items), results)
         IN  IF QLt(item.relevance_score, MIN_RELEVANCE) THEN rest
             ELSE IF item.index >= Len(results) THEN rest
             ELSE LET src == results[item.index + 1]
                      r1 == Put(src, "rerank_score", item.relevance_score)
                      r2 == Put(r1, "original_score", src.score)
                  IN  <<Put(r2, "score", item.relevance_score)>> \o rest

\* _rerank_results without the except clause: a failed call propagates
_rerank_results_uncaught(results, top_k, outcome) ==
    IF outcome.kind = "returns"
    THEN [raised |-> FALSE, results |-> Take(reranked_list(outcome.results, results), top_k)]
    ELSE [raised |-> TRUE, results |-> <<>>]

\* _rerank_results with a configured client and a non-empty list: the
\* try/except of lines 294-345 catches every failure of the call
_rerank_results(results, top_k, outcome) ==
    IF outcome.kind = "returns"
    THEN [raised |-> FALSE, results |-> Take(reranked_list(outcome.results, results), top_k)]
    ELSE [raised |-> FALSE, results |-> Take(results, top_k)]

\* the empty-result check left out
no_results_unchecked(found) == FALSE

\* `if not results: return []`: lines 132-134
no_results(found) == found = <<>>

\* an except clause that swallows the error and returns an empty list
search_except_swallowed == [pc |-> "returned", results |-> <<>>]

\* `except Exception ... raise` around the pipeline: lines 173-176
search_except == [pc |-> "raised", results |-> <<>>]

\* the rerank branch of step 5: lines 152-156
rerank_branch(results, config, include_tests, outcome) ==
    LET rr == _rerank_results(results, config.top_k * 2, outcome)
        kept == IF ~include_tests THEN SelectSeq(rr.results, is_not_test_result)
                ELSE rr.results
    IN  [raised |-> rr.raised, results |-> Take(kept, config.top_k)]

\* the else branch without the cut
no_rerank_branch_uncut(results, config) == results

\* the else branch of step 5: line 159
no_rerank_branch(results, config) == Take(results, config.top_k)

----------------------------------------------------------------------------
(* HybridSearcher (hybrid_searcher.py) *)

\* top_k of the semantic search: line 74
SEMANTIC_POOL == 50
\* the constant k of _rrf_fusion: line 142
RRF_K == 60

\* raw scores BM25Okapi.get_scores gives (an external library)
RawBM25 == {0, 1}

Weights == {[semantic |-> <<7, 10>>, bm25 |-> <<3, 10>>],
            [semantic |-> <<1, 2>>, bm25 |-> <<1, 2>>]}

\* _semantic_search: one ScoredResult per match, in the order delivered
_semantic_search(index_matches, top_k) ==
    LET matches == index_query(index_matches, top_k)
    IN  [i \in 1..Len(matches) |->
            [metadata |-> matches[i].metadata, semantic_score |-> matches[i].score,
             bm25_score |-> <<0, 1>>, rerank_score |-> <<0, 1>>,
             fused_score |-> <<0, 1>>]]

\* max(scores) of a non-empty list of naturals
max_raw(scores) ==
    CHOOSE m \in Range(scores) : \A i \in DOMAIN scores : scores[i] <= m

\* _apply_bm25 that keeps the raw scores
_apply_bm25_raw(candidates, scores) ==
    [i \in 1..Len(candidates) |-> Put(candidates[i], "bm25_score", Q(scores[i], 1))]

\* _apply_bm25 from the raw scores on: lines 131-135
_apply_bm25(candidates, scores) ==
    IF candidates = <<>> THEN candidates
    ELSE LET max_score == IF max_raw(scores) > 0 THEN max_raw(scores) ELSE 1
         IN  [i \in 1..Len(candidates) |->
                 Put(candidates[i], "bm25_score", Q(scores[i], max_score))]

\* 0-based position of candidate i of the list in the list sorted by field
\* (descending, stable)
rank_by(candidates, field, i) ==
    LET tagged == [j \in 1..Len(candidates) |-> Put(candidates[j], "pos", j)]
        ranking == sort_desc(tagged, field)
    IN  (CHOOSE r \in 1..Len(ranking) : ranking[r].pos = i) - 1

\* the term with the rank taken as 1-based already
rrf_term_without_one(weight, rank) == QDiv(weight, <<RRF_K + rank, 1>>)

\* one term weight / (k + rank + 1)
rrf_term(weight, rank) == QDiv(weight, <<RRF_K + rank + 1, 1>>)

_rrf_fusion(candidates, semantic_weight, bm25_weight) ==
    [i \in 1..Len(candidates) |->
        Put(candidates[i], "fused_score",
            QAdd(rrf_term(semantic_weight, rank_by(candidates, "semantic_score", i)),
                 rrf_term(bm25_weight, rank_by(candidates, "bm25_score", i))))]

\* lines 78-82: the fused list, sorted, cut to top_k * 2
fused_candidates(index_matches, scores, weights, top_k) ==
    LET candidates == _semantic_search(index_matches, SEMANTIC_POOL)
        fused == _rrf_fusion(_apply_bm25(candidates, scores),
                             weights.semantic, weights.bm25)
    IN  Take(sort_desc(fused, "fused_score"), top_k * 2)

\* the loop of _rerank, lines 191-194.  The ScoredResult objects are shared
\* with the input list, so c.rerank_score = ... changes that list too.
\* Gives the candidate list as mutated, the list reranked (as positions) and
\* whether candidates[r.index] failed.
RECURSIVE rerank_loop(_, _, _)
rerank_loop(items, candidates, picked) ==
    IF items = <<>> THEN [failed |-> FALSE, candidates |-> candidates, picked |-> picked]
    ELSE LET r == Head(items)
         IN  IF r.index >= Len(candidates)
             THEN [failed |-> TRUE, candidates |-> candidates, picked |-> picked]
             ELSE rerank_loop(Tail(items),
                      [candidates EXCEPT ![r.index + 1] =
                          Put(@, "rerank_score", r.relevance_score)],
                      Append(picked, r.index + 1))

\* _rerank with a non-empty candidate list: lines 182-200
_rerank(candidates, outcome) ==
    IF outcome.kind = "returns"
    THEN LET loop == rerank_loop(outcome.results, candidates, <<>>)
         IN  IF loop.failed
             THEN [raised |-> FALSE, results |-> loop.candidates]
             ELSE [raised |-> FALSE,
                   results |-> [i \in 1..Len(loop.picked) |->
                                   loop.candidates[loop.picked[i]]]]
    ELSE [raised |-> FALSE, results |-> candidates]

\* _to_search_result: the rerank score if it is set (non-zero)
_to_search_result(scored) ==
    [name |-> scored.metadata.name,
     qualified_name |-> scored.metadata.qualified_name,
     file_path |-> scored.metadata.file_path,
     score |-> IF scored.rerank_score # <<0, 1>>
               THEN scored.rerank_score ELSE scored.fused_score]

\* `if not candidates: return []`: lines 75-76
no_candidates(candidates) == candidates = <<>>

\* line 86
hybrid_return(top_candidates, top_k) ==
    LET cut == Take(top_candidates, top_k)
    IN  [i \in 1..Len(cut) |-> _to_search_result(cut[i])]

----------------------------------------------------------------------------
(* State *)

VARIABLES
    searcher,           \* the object under test: its class and its rerank client
    _importance_cache,  \* CodeGraphRanker._importance_cache: repo id -> map
    pc,                 \* where the current search() call is
    req,                \* arguments and backend answers of the current call
    results,            \* the local `results` / `candidates`, then the return value
    calls               \* the stages and backends the current call has invoked

vars == <<searcher, _importance_cache, pc, req, results, calls>>

NoRequest == [kind |-> "none"]

Init ==
    /\ searcher \in [kind : {"SearchEngineV3", "HybridSearcher"},
                     cohere_client : BOOLEAN]
    /\ _importance_cache = <<>>
    /\ pc = "idle"
    /\ req = NoRequest
    /\ results = <<>>
    /\ calls = <<>>

\* no call is in progress
Free == pc = "idle"

\* the caller has taken the return value or the exception; the objects of the
\* request are dropped, the importance cache stays
call_ends ==
    /\ pc \in {"returned", "raised"}
    /\ pc' = "idle"
    /\ req' = NoRequest
    /\ results' = <<>>
    /\ calls' = <<>>
    /\ UNCHANGED <<searcher, _importance_cache>>

----------------------------------------------------------------------------
(* SearchEngineV3.search, one action per stage *)

\* lines 111-121: query analysis, include_tests
search_begin(query, repo_id, file_dependencies, config, pro_user) ==
    /\ Free
    /\ searcher.kind = "SearchEngineV3"
    /\ req' = [kind |-> "v3", query |-> query, repo_id |-> repo_id,
               file_dependencies |-> file_dependencies, config |-> config,
               pro_user |-> pro_user,
               include_tests |-> effective_include_tests(config, query),
               embed |-> "pending", index |-> "pending",
               index_matches |-> <<>>, step4_results |-> <<>>,
               rerank |-> NoRerank]
    /\ pc' = "embed_query"
    /\ results' = <<>>
    /\ calls' = <<"analyze">>
    /\ UNCHANGED <<searcher, _importance_cache>>

\* line 190: the embedding arrives
embed_query_returns ==
    /\ pc = "embed_query"
    /\ pc' = "pinecone_query"
    /\ req' = [req EXCEPT !.embed = "returned"]
    /\ calls' = Append(calls, "embed_query")
    /\ UNCHANGED <<searcher, _importance_cache, results>>

\* line 190 raises: search re-raises (lines 173-176)
embed_query_raises ==
    /\ pc = "embed_query"
    /\ pc' = search_except.pc
    /\ results' = search_except.results
    /\ req' = [req EXCEPT !.embed = "raised"]
    /\ calls' = Append(calls, "embed_query")
    /\ UNCHANGED <<searcher, _importance_cache>>

\* lines 193-228 and 132-134: the index answers; no matches is an empty return
pinecone_query_returns(index_matches) ==
    /\ pc = "pinecone_query"
    /\ LET found == _hybrid_search(req.query, index_matches, pool_size(req.config))
       IN  /\ results' = found
           /\ pc' = IF no_results(found) THEN "returned" ELSE "code_graph"
           /\ calls' = calls \o (IF found = <<>> THEN <<"pinecone.query">>
                                 ELSE <<"pinecone.query", "_apply_bm25_boost">>)
    /\ req' = [req EXCEPT !.index = "returned", !.index_matches = index_matches]
    /\ UNCHANGED <<searcher, _importance_cache>>

\* lines 200-202: the index query raises
pinecone_query_raises ==
    /\ pc = "pinecone_query"
    /\ pc' = search_except.pc
    /\ results' = search_except.results
    /\ req' = [req EXCEPT !.index = "raised"]
    /\ calls' = Append(calls, "pinecone.query")
    /\ UNCHANGED <<searcher, _importance_cache>>

\* lines 137-159: boost or filter, then either wait for the reranker or
\* cut to top_k and return
code_graph_step ==
    /\ pc = "code_graph"
    /\ LET stage == code_graph_stage(_importance_cache, req.repo_id, results,
                                     req.config, req.file_dependencies,
                                     req.include_tests)
       IN  /\ _importance_cache' = stage.cache
           /\ calls' = calls \o stage.calls
           /\ req' = [req EXCEPT !.step4_results = stage.results]
           /\ IF wants_rerank(searcher.cohere_client, req.config, req.pro_user,
                              stage.results)
              THEN /\ results' = stage.results
                   /\ pc' = "rerank"
              ELSE /\ results' = no_rerank_branch(stage.results, req.config)
                   /\ pc' = "returned"
    /\ UNCHANGED searcher

\* lines 152-157: the rerank call ends (one way or another)
rerank_step(outcome) ==
    /\ pc = "rerank"
    /\ \A i \in DOMAIN outcome.results : outcome.results[i].index <= Len(results)
    /\ LET branch == rerank_branch(results, req.config, req.include_tests, outcome)
       IN  /\ results' = IF branch.raised THEN results ELSE branch.results
           /\ pc' = IF branch.raised THEN "raised" ELSE "returned"
    /\ req' = [req EXCEPT !.rerank = outcome]
    /\ calls' = Append(calls, "cohere.rerank")
    /\ UNCHANGED <<searcher, _importance_cache>>

----------------------------------------------------------------------------
(* HybridSearcher.search *)

\* the call arrives: line 57
hybrid_begin(query, repo_id, top_k, weights, use_reranking) ==
    /\ Free
    /\ searcher.kind = "HybridSearcher"
    /\ req' = [kind |-> "v2", query |-> query, repo_id |-> repo_id,
               top_k |-> top_k, weights |-> weights,
               use_reranking |-> use_reranking,
               index |-> "pending",
               index_matches |-> <<>>, bm25_raw |-> <<>>, rerank |-> NoRerank]
    /\ pc' = "semantic_search"
    /\ results' = <<>>
    /\ calls' = <<>>
    /\ UNCHANGED <<searcher, _importance_cache>>

\* lines 90-97: the embedding or the index query raises; nothing catches it
semantic_search_raises ==
    /\ pc = "semantic_search"
    /\ pc' = "raised"
    /\ req' = [req EXCEPT !.index = "raised"]
    /\ calls' = Append(calls, "_semantic_search")
    /\ UNCHANGED <<searcher, _importance_cache, results>>

\* lines 74-86: candidates arrive; BM25, fusion, sort, cut; then either the
\* rerank call or the return
semantic_search_returns(index_matches, scores) ==
    /\ pc = "semantic_search"
    /\ DOMAIN scores = 1..Len(index_query(index_matches, SEMANTIC_POOL))
    /\ req' = [req EXCEPT !.index = "returned", !.index_matches = index_matches,
                           !.bm25_raw = scores]
    /\ IF no_candidates(_semantic_search(index_matches, SEMANTIC_POOL))
       THEN /\ results' = <<>>
            /\ pc' = "returned"
            /\ calls' = Append(calls, "_semantic_search")
       ELSE LET top_candidates == fused_candidates(index_matches, scores,
                                                   req.weights, req.top_k)
            IN  /\ calls' = calls \o <<"_semantic_search", "_apply_bm25", "_rrf_fusion">>
                /\ IF req.use_reranking /\ searcher.cohere_client
                   THEN /\ results' = top_candidates
                        /\ pc' = "hybrid_rerank"
                   ELSE /\ results' = hybrid_return(top_candidates, req.top_k)
                        /\ pc' = "returned"
    /\ UNCHANGED <<searcher, _importance_cache>>

\* lines 84-86: the rerank call ends
hybrid_rerank_step(outcome) ==
    /\ pc = "hybrid_rerank"
    /\ \A i \in DOMAIN outcome.results : outcome.results[i].index <= Len(results)
    /\ LET rr == _rerank(results, outcome)
       IN  /\ results' = IF rr.raised THEN results
                         ELSE hybrid_return(rr.results, req.top_k)
           /\ pc' = IF rr.raised THEN "raised" ELSE "returned"
    /\ req' = [req EXCEPT !.rerank = outcome]
    /\ calls' = Append(calls, "cohere.rerank")
    /\ UNCHANGED <<searcher, _importance_cache>>

----------------------------------------------------------------------------

Next ==
    \/ /\ Free
       /\ \E query \in Queries, repo_id \in Repos,
             file_dependencies \in {NoDeps, ExampleDeps},
             config \in SearchConfigs, pro_user \in BOOLEAN :
               search_begin(query, repo_id, file_dependencies, config, pro_user)
    \/ embed_query_returns
    \/ embed_query_raises
    \/ /\ pc = "pinecone_query"
       /\ \E index_matches \in IndexContents : pinecone_query_returns(index_matches)
    \/ pinecone_query_raises
    \/ code_graph_step
    \/ /\ pc = "rerank"
       /\ \E outcome \in RerankOutcomes : rerank_step(outcome)
    \/ /\ Free
       /\ \E query \in {"Login user"}, repo_id \in Repos, top_k \in 1..MaxTopK,
             weights \in Weights, use_reranking \in BOOLEAN :
               hybrid_begin(query, repo_id, top_k, weights, use_reranking)
    \/ semantic_search_raises
    \/ /\ pc = "semantic_search"
       /\ \E index_matches \in IndexContents :
             \E scores \in [1..Len(index_matches) -> RawBM25] :
               semantic_search_returns(index_matches, scores)
    \/ /\ pc = "hybrid_rerank"
       /\ \E outcome \in RerankOutcomes : hybrid_rerank_step(outcome)
    \/ call_ends

Spec == Init /\ [][Next]_vars

\* the list SearchEngineV3.search returns once retrieval has succeeded, as a
\* function of its inputs: lines 123-171
v3_result(cohere_client, cache, request, index_matches, config, outcome) ==
    LET found == _hybrid_search(request.query, index_matches, pool_size(config))
        stage == code_graph_stage(cache, request.repo_id, found, config,
                                  request.file_dependencies, request.include_tests)
    IN  IF no_results(found) THEN <<>>
        ELSE IF wants_rerank(cohere_client, config, request.pro_user, stage.results)
        THEN rerank_branch(stage.results, config, request.include_tests, outcome).results
        ELSE no_rerank_branch(stage.results, config)

SpecSanity ==
    (pc = "returned" /\ req.kind = "v3") =>
        results = v3_result(searcher.cohere_client, _importance_cache, req,
                            req.index_matches, req.config, req.rerank)

----------------------------------------------------------------------------
(* CodeGraphRanker on its own: one calculate_importance call on a fresh    *)
(* ranker, for a dependency map drawn at the start                         *)

InitRanker ==
    /\ searcher = [kind |-> "CodeGraphRanker", cohere_client |-> FALSE]
    /\ _importance_cache = <<>>
    /\ pc = "idle"
    /\ req \in [kind : {"ranker"}, repo_id : Repos,
                file_dependencies : GeneratedDeps \cup {ExampleDeps}]
    /\ results = <<>>
    /\ calls = <<>>

ranker_calculate_importance ==
    /\ pc = "idle"
    /\ req.kind = "ranker"
    /\ LET ci == calculate_importance(_importance_cache, req.repo_id,
                                      req.file_dependencies)
       IN  /\ _importance_cache' = ci.cache
           /\ results' = ci.map
    /\ pc' = "returned"
    /\ calls' = <<"calculate_importance">>
    /\ UNCHANGED <<searcher, req>>

NextRanker == ranker_calculate_importance

SpecRanker == InitRanker /\ [][NextRanker]_vars

----------------------------------------------------------------------------
(* CodeGraphRanker called directly: any sequence of calculate_importance,  *)
(* boost_results and filter_test_files calls on one ranker                 *)

RankerRepos == {"repo-1", "repo-2"}

\* a second dependency map
OtherDeps == ( "main.py" :> <<"utils.py">> )
RankerDeps == {ExampleDeps, OtherDeps}

\* result lists handed to boost_results and filter_test_files: the fields
\* the ranker reads, files distinct
BoostFiles == {"tests/test_auth.py", "main.py", "auth.py", "services/api.py"}
BoostScores == {<<9, 10>>, <<39, 250>>, <<1, 5>>, <<8, 25>>}
BoostCandidates == [file_path : BoostFiles, score : BoostScores]
BoostInputs ==
    UNION {{l \in [1..n -> BoostCandidates] :
               \A i, j \in 1..n : i # j => l[i].file_path # l[j].file_path}
           : n \in 0..MaxBoostResults}

InitRankerCalls ==
    /\ searcher = [kind |-> "CodeGraphRanker", cohere_client |-> FALSE]
    /\ _importance_cache = <<>>
    /\ pc = "idle"
    /\ req = NoRequest
    /\ results = <<>>
    /\ calls = <<>>

calculate_importance_call(repo_id, file_dependencies) ==
    /\ Free
    /\ LET ci == calculate_importance(_importance_cache, repo_id, file_dependencies)
       IN  /\ _importance_cache' = ci.cache
           /\ results' = ci.map
    /\ req' = [kind |-> "calculate_importance", repo_id |-> repo_id,
               file_dependencies |-> file_dependencies]
    /\ pc' = "returned"
    /\ calls' = <<"calculate_importance">>
    /\ UNCHANGED searcher

\* boost_results with a map calculate_importance returned, or an empty one
boost_results_call(input, importance_map, include_tests) ==
    /\ Free
    /\ results' = boost_results(input, importance_map, include_tests)
    /\ req' = [kind |-> "boost_results", results |-> input,
               results_after |-> boost_results_input(input),
               importance_map |-> importance_map, include_tests |-> include_tests]
    /\ pc' = "returned"
    /\ calls' = <<"boost_results">>
    /\ UNCHANGED <<searcher, _importance_cache>>

filter_test_files_call(input, include_tests) ==
    /\ Free
    /\ results' = filter_test_files(input, include_tests)
    /\ req' = [kind |-> "filter_test_files", results |-> input,
               include_tests |-> include_tests]
    /\ pc' = "returned"
    /\ calls' = <<"filter_test_files">>
    /\ UNCHANGED <<searcher, _importance_cache>>

NextRankerCalls ==
    \/ \E repo_id \in RankerRepos, file_dependencies \in RankerDeps :
          calculate_importance_call(repo_id, file_dependencies)
    \/ /\ Free
       /\ \E input \in BoostInputs, include_tests \in BOOLEAN :
             \E importance_map \in {_importance_cache[r] : r \in DOMAIN _importance_cache}
                                   \cup {<<>>} :
               boost_results_call(input, importance_map, include_tests)
    \/ /\ Free
       /\ \E input \in BoostInputs, include_tests \in BOOLEAN :
             filter_test_files_call(input, include_tests)
    \/ call_ends

SpecRankerCalls == InitRankerCalls /\ [][NextRankerCalls]_vars

----------------------------------------------------------------------------
(* QueryUnderstanding on its own: one analyze call for a query drawn at    *)
(* the start.  A query is given as its words; its text is the words joined *)
(* by single blanks.                                                       *)

QueryVocabulary == <<"how", "does", "to", "what", "is", "fix", "bug", "error", "Where">>

GeneratedQueries ==
    UNION {[1..n -> Range(QueryVocabulary)] : n \in 1..MaxQueryWords}

\* the queries of the intent tests (test_search_v3.py, lines 19-37)
InstanceQueries ==
    {<<"how", "does", "login", "work">>, <<"how", "to", "use", "login">>,
     <<"fix", "bug", "in", "login">>, <<"why", "is", "login", "failing">>,
     <<"find", "authentication", "handler">>}

\* " ".join(words)
RECURSIVE query_text(_)
query_text(words) ==
    IF words = <<>> THEN <<>>
    ELSE IF Len(words) = 1 THEN chars[words[1]]
    ELSE chars[words[1]] \o <<" ">> \o query_text(Tail(words))

InitQuery ==
    /\ searcher = [kind |-> "QueryUnderstanding", cohere_client |-> FALSE]
    /\ _importance_cache = <<>>
    /\ pc = "idle"
    /\ req \in [kind : {"analyze"}, query : GeneratedQueries \cup InstanceQueries]
    /\ results = <<>>
    /\ calls = <<>>

analyze_call ==
    /\ pc = "idle"
    /\ req.kind = "analyze"
    /\ results' = analyze(query_text(req.query))
    /\ pc' = "returned"
    /\ calls' = <<"analyze">>
    /\ UNCHANGED <<searcher, _importance_cache, req>>

NextQuery == analyze_call

SpecQuery == InitQuery /\ [][NextQuery]_vars

----------------------------------------------------------------------------
(* Query expansion: one analyze call for a query drawn at the start, as    *)
(* far as expanded_query goes.  list(set(code_terms)) has no fixed order   *)
(* (string hashing is seeded per process): the call takes any.             *)

ExpandVocabulary ==
    {<<>>,
     <<"a", "u", "t", "h">>,
     <<"l", "o", "g", "i", "n">>,
     <<"L", "o", "g", "i", "n">>,
     <<"J", "S", "O", "N">>,
     <<"r", "e", "s", "p", "o", "n", "s", "e">>,
     <<"W", "e", "b", "S", "o", "c", "k", "e", "t">>,
     <<"s", "i", "g", "n", "_", "i", "n">>,
     <<"h", "a", "n", "d", "l", "e", "r">>}

\* one to MaxExpandWords words joined by single blanks; the empty word gives
\* queries with blanks at the ends or two blanks in a row
ExpandQueries ==
    {join(words) : words \in UNION {[1..n -> ExpandVocabulary] : n \in 1..MaxExpandWords}}

\* the lists a set can be turned into
Orderings(S) == {l \in [1..Cardinality(S) -> S] : Range(l) = S}

InitExpand ==
    /\ searcher = [kind |-> "QueryUnderstanding", cohere_client |-> FALSE]
    /\ _importance_cache = <<>>
    /\ pc = "idle"
    /\ req \in [kind : {"expand"}, query : ExpandQueries]
    /\ results = <<>>
    /\ calls = <<>>

\* lines 121-132 of analyze: query_lower, code_terms, expanded
analyze_expands(code_terms) ==
    /\ pc = "idle"
    /\ req.kind = "expand"
    /\ LET query_lower == strip(lower(req.query))
       IN  results' = [code_terms |-> code_terms,
                       expanded_query |-> _expand_query(query_lower, code_terms)]
    /\ pc' = "returned"
    /\ calls' = <<"analyze">>
    /\ UNCHANGED <<searcher, _importance_cache, req>>

NextExpand ==
    /\ pc = "idle"
    /\ \E code_terms \in Orderings(_extract_code_terms(req.query)) :
          analyze_expands(code_terms)

SpecExpand == InitExpand /\ [][NextExpand]_vars

----------------------------------------------------------------------------
(* EmbeddingProvider.embed_documents, Voyage and OpenAI: one call for a    *)
(* list of texts drawn at the start, one step per backend call.  Text k of *)
(* the list is the number k; `results` is all_embeddings, `calls` the      *)
(* batches sent so far.                                                    *)

\* VoyageCodeEmbedding.BATCH_SIZE (line 41), OpenAIEmbedding.BATCH_SIZE (line 127)
BATCH_SIZE == [VoyageCodeEmbedding |-> 128, OpenAIEmbedding |-> 100]

\* texts[i:i + BATCH_SIZE]
batch_at(texts, i, size) ==
    SubSeq(texts, i + 1, IF i + size < Len(texts) THEN i + size ELSE Len(texts))

\* what the backend answers for a batch: one embedding per text, in order
embeddings_of(batch) == [k \in DOMAIN batch |-> [embedding_of |-> batch[k]]]

\* a failed batch that is logged and skipped
on_batch_error_skips == [raises |-> FALSE]

\* lines 92-95 and 169-172: the exception is logged and raised again
on_batch_error == [raises |-> TRUE]

InitEmbed ==
    /\ searcher \in [kind : DOMAIN BATCH_SIZE, cohere_client : {FALSE}]
    /\ _importance_cache = <<>>
    /\ pc = "idle"
    /\ req \in [kind : {"embed_documents"}, count : 0..MaxTexts, i : {0}, failed : {0}]
    /\ results = <<>>
    /\ calls = <<>>

texts_of(request) == [k \in 1..request.count |-> k]

\* lines 70-76 and 155-160: nothing to embed, or the first batch is due
embed_documents_begins ==
    /\ pc = "idle"
    /\ req.kind = "embed_documents"
    /\ pc' = IF texts_of(req) = <<>> THEN "returned" ELSE "embed_batch"
    /\ UNCHANGED <<searcher, _importance_cache, req, results, calls>>

\* the loop position after the batch at req.i: the next batch or the return
after_batch == IF req.i + BATCH_SIZE[searcher.kind] < req.count
               THEN "embed_batch" ELSE "returned"

\* lines 79-90 and 163-167: the backend answers the batch at req.i
embed_batch_returns ==
    /\ pc = "embed_batch"
    /\ LET batch == batch_at(texts_of(req), req.i, BATCH_SIZE[searcher.kind])
       IN  /\ calls' = Append(calls, batch)
           /\ results' = results \o embeddings_of(batch)
    /\ req' = [req EXCEPT !.i = req.i + BATCH_SIZE[searcher.kind]]
    /\ pc' = after_batch
    /\ UNCHANGED <<searcher, _importance_cache>>

\* lines 92-95 and 169-172: the backend call for the batch at req.i raises
embed_batch_raises ==
    /\ pc = "embed_batch"
    /\ calls' = Append(calls, batch_at(texts_of(req), req.i, BATCH_SIZE[searcher.kind]))
    /\ req' = [req EXCEPT !.i = req.i + BATCH_SIZE[searcher.kind],
                           !.failed = Len(calls) + 1]
    /\ pc' = IF on_batch_error.raises THEN "raised" ELSE after_batch
    /\ UNCHANGED <<searcher, _importance_cache, results>>

NextEmbed ==
    \/ embed_documents_begins
    \/ embed_batch_returns
    \/ embed_batch_raises

SpecEmbed == InitEmbed /\ [][NextEmbed]_vars

----------------------------------------------------------------------------
(* Concurrent SearchEngineV3.search coroutines on one engine and one event *)
(* loop.  A coroutine runs alone from one await to the next: it gives up   *)
(* the loop at `await embed_query` (line 190) and at the run_in_executor   *)
(* of _rerank_results (line 300).  pc, req and results are per coroutine;  *)
(* searcher and _importance_cache are the engine's.  calls is the history  *)
(* of the accesses to _importance_cache.                                   *)

Requests == 1..MaxRequests

ConcurrentRepos == {"repo-1", "repo-2"}
ConcurrentDeps == {ExampleDeps, ("auth.py" :> <<"utils.py">>)}
ConcurrentConfig ==
    [include_tests |-> FALSE, use_code_graph |-> TRUE, use_reranking |-> TRUE,
     use_query_expansion |-> TRUE, top_k |-> 1,
     rerank_top_n |-> DEFAULT_RERANK_TOP_N]
\* what the index answers: nothing, or two functions of auth.py
ConcurrentIndex ==
    {<<>>, <<[metadata |-> CandLogin, score |-> <<9, 10>>],
             [metadata |-> CandLogout, score |-> <<4, 5>>]>>}
ConcurrentRerank ==
    {[kind |-> "raises", results |-> <<>>],
     [kind |-> "returns", results |-> <<[index |-> 1, relevance_score |-> <<1, 2>>]>>]}

\* lines 111-118 for the one query and configuration of these requests
ConcurrentIncludeTests == effective_include_tests(ConcurrentConfig, "Login user")

\* lines 193-228 for that query: what _hybrid_search returns for each answer
\* of the index
ConcurrentFound ==
    [index_matches \in ConcurrentIndex |->
        _hybrid_search("Login user", index_matches, pool_size(ConcurrentConfig))]

\* metrics.increment("search_v3_queries"): observability.py lines 327-329,
\* on the process-wide Metrics object (line 530)
increment(engine) ==
    [engine EXCEPT !.search_v3_queries = @ + 1]

InitConcurrent ==
    /\ searcher = [kind |-> "SearchEngineV3", cohere_client |-> TRUE,
                   search_v3_queries |-> 0]
    /\ _importance_cache = <<>>
    /\ pc = [r \in Requests |-> "idle"]
    /\ req = [r \in Requests |-> NoRequest]
    /\ results = [r \in Requests |-> <<>>]
    /\ calls = <<>>

\* lines 111-129: the call arrives and runs up to `await embed_query`
search_arrives(r, repo_id, file_dependencies, pro_user) ==
    /\ pc[r] = "idle"
    /\ req' = [req EXCEPT ![r] =
                  [kind |-> "v3", query |-> "Login user", repo_id |-> repo_id,
                   file_dependencies |-> file_dependencies,
                   config |-> ConcurrentConfig, pro_user |-> pro_user,
                   include_tests |-> ConcurrentIncludeTests]]
    /\ pc' = [pc EXCEPT ![r] = "embed_query"]
    /\ UNCHANGED <<searcher, _importance_cache, results, calls>>

\* the embedding call fails: the coroutine ends with the exception
embed_query_fails(r) ==
    /\ pc[r] = "embed_query"
    /\ pc' = [pc EXCEPT ![r] = search_except.pc]
    /\ results' = [results EXCEPT ![r] = search_except.results]
    /\ UNCHANGED <<searcher, _importance_cache, req, calls>>

\* what one run of step 4 did to the cache entry of its repo id
cache_access(r, cache, stage) ==
    IF ~uses_code_graph(req[r].config, req[r].file_dependencies) THEN <<>>
    ELSE LET repo_id == req[r].repo_id
         IN  <<[request |-> r, repo_id |-> repo_id,
                file_dependencies |-> req[r].file_dependencies,
                op |-> IF repo_id \in DOMAIN cache /\ stage.cache = cache
                       THEN "read" ELSE "write",
                map |-> stage.cache[repo_id]]>>

\* the embedding arrives: lines 193-159 run without giving up the loop, up
\* to the rerank call or the return
embed_query_resumes(r, index_matches) ==
    /\ pc[r] = "embed_query"
    /\ LET found == ConcurrentFound[index_matches]
       IN  IF no_results(found)
           THEN /\ results' = [results EXCEPT ![r] = <<>>]
                /\ pc' = [pc EXCEPT ![r] = "returned"]
                /\ UNCHANGED <<searcher, _importance_cache, calls>>
           ELSE \E stage \in {code_graph_stage(_importance_cache, req[r].repo_id,
                                               found, req[r].config,
                                               req[r].file_dependencies,
                                               req[r].include_tests)} :
                /\ _importance_cache' = stage.cache
                /\ calls' = calls \o cache_access(r, _importance_cache, stage)
                /\ IF wants_rerank(searcher.cohere_client, req[r].config,
                                   req[r].pro_user, stage.results)
                   THEN /\ results' = [results EXCEPT ![r] = stage.results]
                        /\ pc' = [pc EXCEPT ![r] = "rerank"]
                        /\ UNCHANGED searcher
                   ELSE /\ results' = [results EXCEPT ![r] =
                               no_rerank_branch(stage.results, req[r].config)]
                        /\ pc' = [pc EXCEPT ![r] = "returned"]
                        /\ searcher' = increment(searcher)
    /\ UNCHANGED req

\* the executor is done with the rerank call: lines 301-345 and 153-170
rerank_resumes(r, outcome) ==
    /\ pc[r] = "rerank"
    /\ LET branch == rerank_branch(results[r], req[r].config,
                                   req[r].include_tests, outcome)
       IN  /\ results' = [results EXCEPT ![r] = branch.results]
           /\ pc' = [pc EXCEPT ![r] = "returned"]
    /\ searcher' = increment(searcher)
    /\ UNCHANGED <<_importance_cache, req, calls>>

NextConcurrent ==
    \E r \in Requests :
        \/ /\ pc[r] = "idle"
           /\ \E repo_id \in ConcurrentRepos, file_dependencies \in ConcurrentDeps,
                 pro_user \in BOOLEAN :
                 search_arrives(r, repo_id, file_dependencies, pro_user)
        \/ embed_query_fails(r)
        \/ /\ pc[r] = "embed_query"
           /\ \E index_matches \in ConcurrentIndex :
                 embed_query_resumes(r, index_matches)
        \/ /\ pc[r] = "rerank"
           /\ \E outcome \in ConcurrentRerank : rerank_resumes(r, outcome)

SpecConcurrent == InitConcurrent /\ [][NextConcurrent]_vars

----------------------------------------------------------------------------
(* Step 5 of SearchEngineV3.search on its own: the list step 4 left, the   *)
(* answer of a rerank call that succeeds, then lines 152-157               *)

CandTestLogout ==
    [name |-> "test_logout", qualified_name |-> "test_logout",
     file_path |-> "tests/test_auth.py", summary |-> None]

PoolCandidates == Candidates \cup {CandTestLogout}

\* the lists step 4 can leave with a dependency map: more than one result
\* (line 151), test files penalised but still in the list
RerankPools ==
    UNION {{[i \in 1..n |-> to_result([metadata |-> p[i], score |-> <<4, 5>>])] :
               p \in {q \in [1..n -> PoolCandidates] :
                         \A i, j \in 1..n : i # j => q[i] # q[j]}}
           : n \in 2..MaxMatches}

\* cohere.rerank(documents, top_n) when it succeeds: at most top_n of the
\* documents, each once, with a relevance score, most relevant first
rerank_answers(documents, top_n) ==
    UNION {{l \in [1..n -> [index : 0..(documents - 1),
                            relevance_score : {<<1, 200>>, <<1, 2>>}]] :
               /\ \A i, j \in 1..n : i # j => l[i].index # l[j].index
               /\ \A i \in 1..(n - 1) :
                     QLe(l[i + 1].relevance_score, l[i].relevance_score)}
           : n \in 0..top_n}

\* top_n of the rerank call: line 306, with top_k = config.top_k * 2 (line 152)
rerank_top_n(config, documents) ==
    IF config.top_k * 2 * 2 < documents THEN config.top_k * 2 * 2 ELSE documents

InitRerankCut ==
    /\ searcher = [kind |-> "SearchEngineV3", cohere_client |-> TRUE]
    /\ _importance_cache = <<>>
    /\ pc = "rerank"
    /\ req \in [kind : {"step5"}, top_k : 1..MaxTopK, include_tests : BOOLEAN,
                pool : RerankPools, rerank : {NoRerank}]
    /\ results = req.pool
    /\ calls = <<>>

\* lines 152-157: rerank, filter the test files again, cut to top_k
rerank_cut(outcome) ==
    /\ pc = "rerank"
    /\ req.kind = "step5"
    /\ LET config == [top_k |-> req.top_k]
           branch == rerank_branch(results, config, req.include_tests, outcome)
       IN  /\ results' = branch.results
           /\ pc' = "returned"
    /\ req' = [req EXCEPT !.rerank = outcome]
    /\ calls' = Append(calls, "cohere.rerank")
    /\ UNCHANGED <<searcher, _importance_cache>>

NextRerankCut ==
    /\ pc = "rerank"
    /\ \E answer \in rerank_answers(Len(results),
                                    rerank_top_n([top_k |-> req.top_k], Len(results))) :
          rerank_cut([kind |-> "returns", results |-> answer])

SpecRerankCut == InitRerankCut /\ [][NextRerankCut]_vars

----------------------------------------------------------------------------
(* HybridSearcher._apply_bm25 on its own: one call for a candidate batch   *)
(* and the raw scores BM25Okapi gave it, both drawn at the start           *)

\* raw scores of the batch: none negative
RawScores == {0, 1, 2, 5}

InitBM25 ==
    /\ searcher = [kind |-> "HybridSearcher", cohere_client |-> FALSE]
    /\ _importance_cache = <<>>
    /\ pc = "idle"
    /\ \E index_matches \in IndexContents :
          req \in [kind : {"_apply_bm25"},
                   candidates : {_semantic_search(index_matches, SEMANTIC_POOL)},
                   scores : [1..Len(index_matches) -> RawScores]]
    /\ results = <<>>
    /\ calls = <<>>

apply_bm25_call ==
    /\ pc = "idle"
    /\ req.kind = "_apply_bm25"
    /\ results' = _apply_bm25(req.candidates, req.scores)
    /\ pc' = "returned"
    /\ calls' = <<"_apply_bm25">>
    /\ UNCHANGED <<searcher, _importance_cache, req>>

NextBM25 == apply_bm25_call

SpecBM25 == InitBM25 /\ [][NextBM25]_vars

----------------------------------------------------------------------------
(* IndexerV2: index_repository runs on one indexer.  `searcher.index` is   *)
(* the vector store behind self.index (id -> vector); `calls` logs the     *)
(* runs made so far with the ids each one upserted and the store it left.  *)

\* the checkouts on disk: for each repo_path its code files and the nodes
\* _extract_functions finds in each (name, 0-based start line); "/r/a" has two
\* nodes starting on one line, "/r/c" no code file, "/r/d" no function
Checkouts ==
    ( "/r/a" :> << [rel |-> "auth.py",
                    functions |-> << [name |-> "login", start_line |-> 0],
                                     [name |-> "logout", start_line |-> 12] >>],
                   [rel |-> "utils.py",
                    functions |-> << [name |-> "helper", start_line |-> 3],
                                     [name |-> "anonymous", start_line |-> 3] >>] >>
   @@ "/r/b" :> << [rel |-> "auth.py",
                    functions |-> << [name |-> "login", start_line |-> 0] >>] >>
   @@ "/r/c" :> << >>
   @@ "/r/d" :> << [rel |-> "main.py", functions |-> << >>] >> )

\* lines 136-152: the paths rglob yields, each below repo_path
_discover_code_files(repo_path) ==
    [i \in DOMAIN Checkouts[repo_path] |->
        chars[repo_path] \o <<"/">> \o chars[Checkouts[repo_path][i].rel]]

\* lines 192-215: the functions of the i-th code file with their metadata;
\* nothing when reading or parsing the file raised
_extract_functions_from_file(repo_id, repo_path, i, unreadable) ==
    IF i \in unreadable THEN <<>>
    ELSE LET functions == Checkouts[repo_path][i].functions
         IN  [k \in DOMAIN functions |->
                 [name |-> functions[k].name,
                  start_line |-> functions[k].start_line,
                  file_path |-> _discover_code_files(repo_path)[i],
                  repo_id |-> repo_id]]

\* lines 265-280: the functions of the first n code files, in file order
RECURSIVE all_functions(_, _, _, _)
all_functions(repo_id, repo_path, unreadable, n) ==
    IF n = 0 THEN <<>>
    ELSE all_functions(repo_id, repo_path, unreadable, n - 1)
         \o _extract_functions_from_file(repo_id, repo_path, n, unreadable)

\* str(n) of a line number
RECURSIVE decimal(_)
decimal(n) ==
    LET digit == <<"0", "1", "2", "3", "4", "5", "6", "7", "8", "9">>[(n % 10) + 1]
    IN  IF n < 10 THEN <<digit>> ELSE decimal(n \div 10) \o <<digit>>

\* a vector id that also hashes the function name
vector_id_with_name(repo_id, func) ==
    [md5 |-> chars[repo_id] \o <<":">> \o func.file_path \o <<":">>
             \o decimal(func.start_line) \o <<":">> \o <<func.name>> \o <<":", "v", "2">>]

\* lines 338-340: the md5 digest of "{repo_id}:{file_path}:{start_line}:v2";
\* the digest is kept as a tag around the hashed text (no two texts collide)
vector_id(repo_id, func) ==
    [md5 |-> chars[repo_id] \o <<":">> \o func.file_path \o <<":">>
             \o decimal(func.start_line) \o <<":", "v", "2">>]

\* lines 217-235: the embedding of a text, zeros when the backend raised
_create_embeddings_batch(func, embedding) ==
    IF embedding = "raises" THEN "zeros" ELSE <<"embedding", func.name>>

\* lines 334-358: the vectors of a run, one per extracted function
vectors_of(repo_id, functions, embedding) ==
    [k \in DOMAIN functions |->
        [id |-> vector_id(repo_id, functions[k]),
         values |-> _create_embeddings_batch(functions[k], embedding),
         metadata |-> [repo_id |-> repo_id,
                       file_path |-> functions[k].file_path,
                       name |-> functions[k].name,
                       start_line |-> functions[k].start_line,
                       version |-> "v2"]]]

\* lines 361-363, index.upsert: each vector replaces the one stored under
\* its id, in order
RECURSIVE upsert(_, _)
upsert(store, vectors) ==
    IF vectors = <<>> THEN store
    ELSE LET v == Head(vectors)
         IN  upsert([id \in DOMAIN store \cup {v.id} |->
                        IF id = v.id THEN v ELSE store[id]],
                    Tail(vectors))

InitIndexer ==
    /\ searcher = [kind |-> "IndexerV2", index |-> <<>>]
    /\ _importance_cache = <<>>
    /\ pc = "idle"
    /\ req = NoRequest
    /\ results = <<>>
    /\ calls = <<>>

\* lines 237-392: one index_repository call; `unreadable` are the files whose
\* extraction raised, `embedding` is how the embedding backend answered
index_repository(repo_id, repo_path, unreadable, embedding) ==
    /\ Len(calls) < MaxIndexRuns
    /\ LET code_files == _discover_code_files(repo_path)
           functions == all_functions(repo_id, repo_path, unreadable, Len(code_files))
           vectors == IF functions = <<>> THEN <<>>
                      ELSE vectors_of(repo_id, functions, embedding)
           store == upsert(searcher.index, vectors)
       IN  /\ searcher' = [searcher EXCEPT !.index = store]
           /\ results' = [files_processed |-> Len(code_files),
                          functions_extracted |-> Len(functions),
                          vectors_stored |-> Len(vectors)]
           /\ calls' = Append(calls, [repo_id |-> repo_id, repo_path |-> repo_path,
                                      unreadable |-> unreadable,
                                      embedding |-> embedding,
                                      upserted |-> {vectors[k].id : k \in DOMAIN vectors},
                                      store |-> store])
    /\ req' = [kind |-> "index_repository", repo_id |-> repo_id,
               repo_path |-> repo_path]
    /\ pc' = "returned"
    /\ UNCHANGED _importance_cache

NextIndexer ==
    \E repo_id \in RankerRepos, repo_path \in DOMAIN Checkouts :
        \E unreadable \in SUBSET DOMAIN Checkouts[repo_path],
           embedding \in {"returns", "raises"} :
            index_repository(repo_id, repo_path, unreadable, embedding)

SpecIndexer == InitIndexer /\ [][NextIndexer]_vars

----------------------------------------------------------------------------
(* Helpers of the properties *)

\* who is in a returned list, position by position
Ids(list) == [i \in 1..Len(list) |-> <<list[i].file_path, list[i].name>>]

\* code points order the characters of the model
ASCII == <<" ", ".", "/">> \o UPPER \o <<"_">> \o LOWER
ord(c) == CHOOSE i \in DOMAIN ASCII : ASCII[i] = c

\* a < b for Python strings (as character tuples)
RECURSIVE str_lt(_, _)
str_lt(a, b) ==
    IF b = <<>> THEN FALSE
    ELSE IF a = <<>> THEN TRUE
    ELSE IF Head(a) # Head(b) THEN ord(Head(a)) < ord(Head(b))
    ELSE str_lt(Tail(a), Tail(b))

\* the request's top_k
RequestTopK == IF req.kind = "v3" THEN req.config.top_k ELSE req.top_k

\* a search() call of either searcher has returned
Returned == pc = "returned" /\ req.kind \in {"v3", "v2"}

\* the rerank backend was called in this request
RerankCalled == "cohere.rerank" \in Range(calls)

\* the fused list of HybridSearcher.search where a state shows it: on the way
\* into the rerank call, or as the return value when no rerank call was made
FusedView ==
    IF pc = "hybrid_rerank"
    THEN [i \in 1..Len(results) |->
             [file_path |-> results[i].metadata.file_path,
              name |-> results[i].metadata.name,
              fused |-> results[i].fused_score]]
    ELSE IF pc = "returned" /\ req.kind = "v2" /\ req.rerank.kind = "none"
    THEN [i \in 1..Len(results) |->
             [file_path |-> results[i].file_path, name |-> results[i].name,
              fused |-> results[i].score]]
    ELSE <<>>

----------------------------------------------------------------------------
(* Properties *)

\* C1: a returned list has at most top_k entries, for both searchers and on
\* every path of the pipeline.
C1_AtMostTopK == Returned => Len(results) <= RequestTopK

\* a search found more candidates than top_k and returned exactly top_k
C1_Witness ==
    /\ Returned
    /\ RerankCalled
    /\ Len(req.index_matches) > RequestTopK
    /\ Len(results) = RequestTopK

\* C2: with the effective include_tests false, SearchEngineV3.search returns
\* no test file, on every path of the pipeline.
C2_NoTestFiles ==
    (pc = "returned" /\ req.kind = "v3" /\ ~req.include_tests) =>
        \A i \in 1..Len(results) : ~_is_test_file(results[i].file_path)

\* C3: a run whose rerank call raises returns the same candidates in the same
\* order as the run with use_reranking=False on the same inputs.
C3_RerankFailureIsNoRerank ==
    (pc = "returned" /\ req.kind = "v3" /\ req.rerank.kind = "raises") =>
        Ids(results) =
            Ids(v3_result(searcher.cohere_client, _importance_cache, req,
                          req.index_matches,
                          [req.config EXCEPT !.use_reranking = FALSE], NoRerank))

\* C4: once the rerank backend has been called, the search returns a list; it
\* never raises, whatever the backend did.
C4_RerankNeverRaises == RerankCalled => pc = "returned"

\* the rerank call failed after a successful retrieval, and the search
\* returned a non-empty list
C4_Witness ==
    /\ Returned
    /\ RerankCalled
    /\ req.rerank.kind \in {"raises", "malformed"}
    /\ Len(results) >= 1

\* C5: when the embedding call or the vector-store query raises,
\* SearchEngineV3.search raises: it returns no list and runs no later stage.
C5_RetrievalFailureRaises ==
    (req.kind = "v3" /\ (req.embed = "raised" \/ req.index = "raised")) =>
        /\ pc = "raised"
        /\ results = <<>>
        /\ Range(calls) \subseteq {"analyze", "embed_query", "pinecone.query"}
        /\ req.embed = "raised" => "pinecone.query" \notin Range(calls)

\* the vector-store query raised and the search raised
C5_Witness ==
    /\ req.kind = "v3"
    /\ req.index = "raised"
    /\ pc = "raised"

\* C6: when the vector store returns zero matches, both searchers return an
\* empty list without raising, and neither the importance/boost stage nor the
\* rerank backend is invoked.
C6_EmptyResult ==
    (req.kind \in {"v3", "v2"} /\ req.index = "returned" /\ req.index_matches = <<>>) =>
        /\ pc = "returned"
        /\ results = <<>>
        /\ Range(calls) \cap {"calculate_importance", "boost_results",
                              "cohere.rerank"} = {}

\* zero matches for a request that would otherwise boost and rerank
C6_Witness ==
    /\ pc = "returned"
    /\ req.kind = "v3"
    /\ req.index = "returned"
    /\ req.index_matches = <<>>
    /\ uses_code_graph(req.config, req.file_dependencies)
    /\ req.config.use_reranking /\ req.pro_user /\ searcher.cohere_client

\* 0-based position of match p in the descending ranking by score: the
\* matches scoring higher, and those scoring the same delivered earlier
RankIn(scores, p) ==
    Cardinality({j \in DOMAIN scores :
                    \/ scores[j] > scores[p]
                    \/ scores[j] = scores[p] /\ j < p})

\* the similarity scores of the delivered matches, in thousandths
SemanticThousandths ==
    [j \in 1..Len(req.index_matches) |->
        (req.index_matches[j].score[1] * 1000) \div req.index_matches[j].score[2]]

\* position of an entry of the fused view in the delivered matches
DeliveredPos(entry) ==
    CHOOSE j \in 1..Len(req.index_matches) :
        /\ req.index_matches[j].metadata.file_path = entry.file_path
        /\ req.index_matches[j].metadata.name = entry.name

\* weight_sem / (60 + r_sem + 1) + weight_lex / (60 + r_lex + 1)
ClaimedFused(p) ==
    QAdd(QDiv(req.weights.semantic, <<60 + RankIn(SemanticThousandths, p) + 1, 1>>),
         QDiv(req.weights.bm25, <<60 + RankIn(req.bm25_raw, p) + 1, 1>>))

\* semantic ranking [A, B, C], lexical ranking [B, A, C], weights 0.7 / 0.3,
\* and all three candidates visible
RRFScenario ==
    /\ FusedView # <<>>
    /\ Len(req.index_matches) = 3
    /\ Len(FusedView) = 3
    /\ req.bm25_raw = <<0, 1, 0>>
    /\ req.weights = [semantic |-> <<7, 10>>, bm25 |-> <<3, 10>>]

\* C7: every fused score is semantic_weight/(60+r_sem+1) +
\* bm25_weight/(60+r_lex+1) and is positive; in the scenario fused(A) =
\* 0.7/61 + 0.3/62, fused(B) = 0.7/62 + 0.3/61, fused(C) = 0.7/63 + 0.3/63
\* and A, B, C is the descending order.
C7_RRFFormula ==
    /\ \A i \in 1..Len(FusedView) :
          /\ FusedView[i].fused = ClaimedFused(DeliveredPos(FusedView[i]))
          /\ QLt(<<0, 1>>, FusedView[i].fused)
    /\ RRFScenario =>
          /\ \A i \in 1..3 : DeliveredPos(FusedView[i]) = i
          /\ FusedView[1].fused = QAdd(<<7, 610>>, <<3, 620>>)
          /\ FusedView[2].fused = QAdd(<<7, 620>>, <<3, 610>>)
          /\ FusedView[3].fused = QAdd(<<7, 630>>, <<3, 630>>)
          /\ QLt(FusedView[2].fused, FusedView[1].fused)
          /\ QLt(FusedView[3].fused, FusedView[2].fused)

C7_Witness == RRFScenario /\ pc = "hybrid_rerank"

\* C8: in the fused, sorted list of HybridSearcher.search, of two neighbours
\* with equal fused_score the one with the smaller file_path comes first, and
\* for equal file_path the one with the smaller name.
C8_TieBreakByPathThenName ==
    \A i \in 1..(Len(FusedView) - 1) :
        FusedView[i].fused = FusedView[i + 1].fused =>
            \/ str_lt(chars[FusedView[i].file_path], chars[FusedView[i + 1].file_path])
            \/ /\ FusedView[i].file_path = FusedView[i + 1].file_path
               /\ ~str_lt(chars[FusedView[i + 1].name], chars[FusedView[i].name])

\* the same matches as the request got, delivered in another order
Redeliveries ==
    {other \in IndexContents :
        /\ Len(other) = Len(req.index_matches)
        /\ Range(index_query(other, pool_size(req.config)))
               = Range(index_query(req.index_matches, pool_size(req.config)))}

\* C9: SearchEngineV3.search returns the same list whatever the order in
\* which the vector store delivers the same set of matches.
C9_OrderIndependent ==
    (pc = "returned" /\ req.kind = "v3" /\ req.index = "returned"
        /\ req.rerank.kind = "none") =>
        \A other \in Redeliveries :
            Ids(v3_result(searcher.cohere_client, _importance_cache, req,
                          other, req.config, NoRerank)) = Ids(results)

\* the number of files that list f as a dependency
Dependents(deps, f) == Cardinality({k \in DOMAIN deps : f \in Range(deps[k])})

MaxOf(S) == CHOOSE m \in S : \A n \in S : n <= m

\* clamp((0.3 + 0.7 * count/max) * 0.5 if test * 1.3 if core * 1.5 if count >= 5)
ClaimedImportance(deps, f) ==
    LET files == (DOMAIN deps) \cup UNION {Range(deps[k]) : k \in DOMAIN deps}
        maxd == MaxOf({Dependents(deps, g) : g \in files} \cup {1})
        count == Dependents(deps, f)
        product ==
            QMul(QMul(QMul(QAdd(<<3, 10>>, QMul(<<7, 10>>, Q(count, maxd))),
                           IF _is_test_file(f) THEN <<1, 2>> ELSE <<1, 1>>),
                      IF _is_core_file(f) THEN <<13, 10>> ELSE <<1, 1>>),
                 IF count >= 5 THEN <<3, 2>> ELSE <<1, 1>>)
    IN  IF QLt(<<1, 1>>, product) THEN <<1, 1>> ELSE product

Analyzed == pc = "returned" /\ req.kind = "analyze"

\* the query as _detect_intent gets it
AnalyzedText == strip(lower(query_text(req.query)))

\* the largest pattern-match count over the intents
TopCount == MaxOf({intent_score(INTENTS[k], AnalyzedText) : k \in DOMAIN INTENTS})

\* the intents that reach the largest count
TopIntents ==
    {INTENTS[k] : k \in {j \in DOMAIN INTENTS :
                            intent_score(INTENTS[j], AnalyzedText) = TopCount}}

\* C12: when two or more intents share the highest pattern-match count, the
\* analysis gives FIND_IMPLEMENTATION with confidence 0.5.
C12_TieDefaultsToFindImplementation ==
    (Analyzed /\ Cardinality(TopIntents) >= 2) =>
        /\ results.intent = FIND_IMPLEMENTATION
        /\ results.confidence = <<1, 2>>

Boosted == pc = "returned" /\ req.kind = "boost_results"

\* where the candidate at position i of the argument list is in the
\* returned list
BoostedPos(i) ==
    CHOOSE p \in DOMAIN results : results[p].file_path = req.results[i].file_path

\* the candidates of the boosting scenario: a test file known to the
\* importance map with importance 0.15, original score 0.9
ScenarioTestCandidates ==
    {i \in DOMAIN req.results :
        /\ req.results[i].score = <<9, 10>>
        /\ req.results[i].file_path \in DOMAIN req.importance_map
        /\ req.importance_map[req.results[i].file_path].is_test_file
        /\ req.importance_map[req.results[i].file_path].importance_score = <<3, 20>>}

NonTestCandidates ==
    {i \in DOMAIN req.results : ~_is_test_file(req.results[i].file_path)}

\* boost_factor 0.1725 and new score 0.15525 for the scenario candidate
ScenarioScores(t) ==
    /\ results[BoostedPos(t)].score = <<621, 4000>>
    /\ QDiv(results[BoostedPos(t)].score, results[BoostedPos(t)].original_score)
          = <<69, 400>>

\* C11 as stated: with include_tests false the scenario candidate gets
\* boost_factor 0.1725 and new score 0.15525 and comes after every non-test
\* candidate whose original score is >= 0.156.
C11_TestBelowAnyScoreAbove0156 ==
    (Boosted /\ ~req.include_tests) =>
        \A t \in ScenarioTestCandidates :
            /\ ScenarioScores(t)
            /\ \A c \in NonTestCandidates :
                  QLe(<<39, 250>>, req.results[c].score) => BoostedPos(c) < BoostedPos(t)

\* C11: with include_tests false the scenario candidate gets boost_factor
\* 0.1725 and new score 0.15525 and comes after every non-test candidate
\* whose original score is above 0.3105 when its file is in the importance
\* map (factor at least 0.5) and above 0.1940625 when it is not (factor 0.8).
C11_TestBelowBoostedAbove ==
    (Boosted /\ ~req.include_tests) =>
        \A t \in ScenarioTestCandidates :
            /\ ScenarioScores(t)
            /\ \A c \in NonTestCandidates :
                  QLt(IF req.results[c].file_path \in DOMAIN req.importance_map
                      THEN <<621, 2000>> ELSE <<621, 3200>>,
                      req.results[c].score)
                  => BoostedPos(c) < BoostedPos(t)

\* the scenario candidate was delivered first and ended behind a non-test
\* candidate of original score 0.32
C11_Witness ==
    /\ Boosted
    /\ ~req.include_tests
    /\ Len(results) = 2
    /\ 1 \in ScenarioTestCandidates
    /\ req.results[2].score = <<8, 25>>
    /\ results[1].file_path = req.results[2].file_path
    /\ results[2].score = <<621, 4000>>

\* C16: a cache entry is never removed or replaced; a calculate_importance
\* call for a repo id that has an entry returns that entry whatever
\* dependency map it is given, and only a call for a repo id without an
\* entry computes a map (and stores it).
C16_CacheKeptForever ==
    [][/\ \A r \in DOMAIN _importance_cache :
            /\ r \in DOMAIN _importance_cache'
            /\ _importance_cache'[r] = _importance_cache[r]
       /\ (pc = "idle" /\ pc' = "returned" /\ req'.kind = "calculate_importance") =>
            IF req'.repo_id \in DOMAIN _importance_cache
            THEN /\ results' = _importance_cache[req'.repo_id]
                 /\ _importance_cache' = _importance_cache
            ELSE /\ DOMAIN results' = all_files(req'.file_dependencies)
                 /\ \A f \in DOMAIN results' :
                       results'[f].importance_score
                           = ClaimedImportance(req'.file_dependencies, f)
                 /\ _importance_cache'[req'.repo_id] = results']_vars

\* a later call with another dependency map got the map of the first call
C16_Witness ==
    /\ pc = "returned"
    /\ req.kind = "calculate_importance"
    /\ req.file_dependencies = OtherDeps
    /\ results = _importance_cache[req.repo_id]
    /\ DOMAIN results = all_files(ExampleDeps)

\* one of the six terms is in the lowercased query
QueryNamesTests(query) ==
    \E term \in {"test", "testing", "spec", "mock", "fixture", "example"} :
        contains(lower(chars[query]), chars[term])

\* retrieval has succeeded in a SearchEngineV3.search call and step 4 is over
PastCodeGraph ==
    /\ req.kind = "v3"
    /\ req.index = "returned"
    /\ pc \in {"rerank", "returned"}

\* the list step 4 hands to step 5 (the boosted or filtered candidates), as
\* code_graph_step recorded it
StageOutput == req.step4_results

\* the rerank backend has been invoked: the call is in flight or has ended
RerankInvoked == pc = "rerank" \/ RerankCalled

\* the entries of a list that are not in test files, in order
RECURSIVE NonTestSubsequence(_)
NonTestSubsequence(list) ==
    IF list = <<>> THEN <<>>
    ELSE IF _is_test_file(Head(list).file_path) THEN NonTestSubsequence(Tail(list))
    ELSE <<Head(list)>> \o NonTestSubsequence(Tail(list))

\* C14: the include_tests the stages get is config.include_tests OR "the
\* lowercased query contains one of test, testing, spec, mock, fixture,
\* example"; step 4 boosts or filters with that value.
C14_IncludeTestsIsConfigOrQuery ==
    req.kind = "v3" =>
        LET claimed == req.config.include_tests \/ QueryNamesTests(req.query)
        IN  /\ req.include_tests = claimed
            /\ (PastCodeGraph /\ ~RerankCalled) =>
                  LET found == _hybrid_search(req.query, req.index_matches,
                                              pool_size(req.config))
                  IN  StageOutput = code_graph_stage(_importance_cache, req.repo_id,
                                                     found, req.config,
                                                     req.file_dependencies,
                                                     claimed).results

\* the config excludes tests, the query names them, and a test file is
\* returned
C14_Witness ==
    /\ pc = "returned"
    /\ req.kind = "v3"
    /\ ~req.config.include_tests
    /\ QueryNamesTests(req.query)
    /\ ~uses_code_graph(req.config, req.file_dependencies)
    /\ \E i \in DOMAIN results : _is_test_file(results[i].file_path)

\* the return value of step 5 on each of its branches
Step5Ordering ==
    pc = "returned" =>
        IF RerankCalled
        THEN LET reranked == _rerank_results(StageOutput, req.config.top_k * 2,
                                             req.rerank).results
                 kept == IF req.include_tests THEN reranked
                         ELSE NonTestSubsequence(reranked)
             IN  results = Take(kept, req.config.top_k)
        ELSE results = Take(StageOutput, req.config.top_k)

\* C17 as stated: the rerank backend is invoked iff use_reranking is set, a
\* client is configured and more than one candidate is left after step 4;
\* then the test filter follows the rerank and the cut to top_k follows the
\* filter; otherwise the list of step 4 is cut to top_k.
C17_RerankIffThreeConditions ==
    PastCodeGraph =>
        /\ RerankInvoked <=> (/\ req.config.use_reranking
                              /\ searcher.cohere_client
                              /\ Len(StageOutput) > 1)
        /\ Step5Ordering

\* C17: the rerank backend is invoked iff use_reranking is set, a client is
\* configured, the caller is a pro user and more than one candidate is left
\* after step 4; then the test filter follows the rerank and the cut to
\* top_k follows the filter; otherwise the list of step 4 is cut to top_k.
C17_RerankIffFourConditions ==
    PastCodeGraph =>
        /\ RerankInvoked <=> (/\ req.config.use_reranking
                              /\ searcher.cohere_client
                              /\ req.pro_user
                              /\ Len(StageOutput) > 1)
        /\ Step5Ordering

\* the reranker put a test file first, the filter removed it and the cut to
\* top_k = 1 kept the candidate behind it
C17_Witness ==
    /\ pc = "returned"
    /\ req.kind = "v3"
    /\ RerankCalled
    /\ ~req.include_tests
    /\ req.config.top_k = 1
    /\ req.rerank.kind = "returns"
    /\ Len(req.rerank.results) = 2
    /\ \A k \in 1..2 : /\ req.rerank.results[k].index < Len(StageOutput)
                       /\ req.rerank.results[k].relevance_score = <<1, 2>>
    /\ _is_test_file(StageOutput[req.rerank.results[1].index + 1].file_path)
    /\ Len(results) = 1

\* C18: when the rerank call fails, the returned list is the first top_k
\* entries of the list that entered the rerank stage, nothing removed,
\* reordered or rescored.
C18_FailedRerankReturnsPrefix ==
    (pc = "returned" /\ req.kind = "v3" /\ req.rerank.kind \in {"raises", "malformed"}) =>
        results = Take(StageOutput, req.config.top_k)

\* C19: after a successful rerank every returned candidate has rerank_score
\* >= 0.01 and score = rerank_score, keeps its pre-rerank score in
\* original_score, and is the document of an index the reranker returned,
\* inside the submitted list.
C19_RerankedFields ==
    (pc = "returned" /\ req.kind = "v3" /\ req.rerank.kind = "returns") =>
        LET submitted == StageOutput
        IN  \A i \in DOMAIN results :
                /\ QLe(<<1, 100>>, results[i].rerank_score)
                /\ results[i].score = results[i].rerank_score
                /\ \E k \in DOMAIN req.rerank.results :
                      LET item == req.rerank.results[k]
                      IN  /\ item.index < Len(submitted)
                          /\ item.relevance_score = results[i].rerank_score
                          /\ results[i].original_score = submitted[item.index + 1].score
                          /\ results[i].file_path = submitted[item.index + 1].file_path
                          /\ results[i].name = submitted[item.index + 1].name

\* the reranker scored one document of a boosted list below the threshold
\* and one above it; only the second was returned
C19_Witness ==
    /\ pc = "returned"
    /\ req.kind = "v3"
    /\ req.rerank.kind = "returns"
    /\ uses_code_graph(req.config, req.file_dependencies)
    /\ Len(req.rerank.results) = 2
    /\ \A k \in 1..2 : req.rerank.results[k].index < Len(StageOutput)
    /\ req.rerank.results[1].relevance_score = <<1, 200>>
    /\ req.rerank.results[2].relevance_score = <<1, 2>>
    /\ Len(results) = 1

\* C20: without a dependency map, or with use_code_graph false, step 4 does
\* not fail, calls neither calculate_importance nor boost_results and leaves
\* the importance cache alone; its output is the non-test candidates in
\* their order with their scores when include_tests is false, and the
\* unchanged list when it is true.
C20_NoMapOnlyFilters ==
    [][(pc = "code_graph"
           /\ ~(req.config.use_code_graph /\ req.file_dependencies # NoDeps)) =>
          /\ pc' \in {"rerank", "returned"}
          /\ _importance_cache' = _importance_cache
          /\ Range(calls') \cap {"calculate_importance", "boost_results"} = {}
          /\ LET out == IF req.include_tests THEN results
                        ELSE NonTestSubsequence(results)
             IN  results' = IF pc' = "rerank" THEN out
                            ELSE Take(out, req.config.top_k)]_vars

\* a search asking for the code graph but given no map went through the
\* hard filter, which removed a test file and kept another candidate
C20_Witness ==
    /\ pc = "returned"
    /\ req.kind = "v3"
    /\ req.config.use_code_graph
    /\ req.file_dependencies = NoDeps
    /\ ~req.include_tests
    /\ "filter_test_files" \in Range(calls)
    /\ \E i \in DOMAIN req.index_matches :
          _is_test_file(req.index_matches[i].metadata.file_path)
    /\ Len(results) >= 1

\* the (repo_id, file_path, start_line, version) a stored vector stands for
IndexedIdentity(v) ==
    <<v.metadata.repo_id, v.metadata.file_path, v.metadata.start_line,
      v.metadata.version>>

\* run k indexes the repository of run j again: same repo id, same checkout,
\* the same files read
Reindexes(j, k) ==
    /\ j < k
    /\ calls[k].repo_id = calls[j].repo_id
    /\ calls[k].repo_path = calls[j].repo_path
    /\ calls[k].unreadable = calls[j].unreadable

\* C15: the id of a stored vector depends only on (repo_id, file_path,
\* start_line, 'v2'); a second index_repository run on the same unchanged
\* repository upserts exactly the ids of the first, and when it follows the
\* first it leaves the ids in the store as they were (the vectors themselves
\* too, when the embedding backend answered alike).
C15_ReindexSameIds ==
    searcher.kind = "IndexerV2" =>
        /\ \A j, k \in DOMAIN calls :
              \A v \in Range(calls[j].store), w \in Range(calls[k].store) :
                  IndexedIdentity(v) = IndexedIdentity(w) <=> v.id = w.id
        /\ \A j, k \in DOMAIN calls :
              Reindexes(j, k) =>
                  /\ calls[k].upserted = calls[j].upserted
                  /\ k = j + 1 =>
                        /\ DOMAIN calls[k].store = DOMAIN calls[j].store
                        /\ calls[k].embedding = calls[j].embedding =>
                              calls[k].store = calls[j].store

\* "/r/a" was indexed twice in a row under one repo id: three ids for its
\* four functions, both times
C15_Witness ==
    /\ searcher.kind = "IndexerV2"
    /\ Len(calls) = 2
    /\ Reindexes(1, 2)
    /\ calls[1].repo_path = "/r/a"
    /\ calls[1].unreadable = {}
    /\ Cardinality(calls[2].upserted) = 3
    /\ Cardinality(DOMAIN searcher.index) = 3
    /\ results.functions_extracted = 4

\* C21: the map a first calculate_importance call returns has as keys the
\* keys of the dependency map together with every file listed as a
\* dependency, and every entry has 0 <= importance_score <= 1 and
\* dependent_count >= 0.
C21_KeysAndRanges ==
    (pc = "returned" /\ req.kind = "ranker") =>
        LET deps == req.file_dependencies
        IN  /\ DOMAIN results =
                  (DOMAIN deps) \cup {f \in Range(DepFileList) :
                                         \E k \in DOMAIN deps : f \in Range(deps[k])}
            /\ \A f \in DOMAIN results :
                  /\ QLe(<<0, 1>>, results[f].importance_score)
                  /\ QLe(results[f].importance_score, <<1, 1>>)
                  /\ results[f].dependent_count >= 0

\* utils.py is no key of the example map, two files depend on it, and its
\* score was clamped to 1
C21_Witness ==
    /\ pc = "returned"
    /\ req.kind = "ranker"
    /\ "utils.py" \notin DOMAIN req.file_dependencies
    /\ "utils.py" \in DOMAIN results
    /\ results["utils.py"].dependent_count = 2
    /\ results["utils.py"].importance_score = <<1, 1>>

\* C22: boost_results returns every input candidate exactly once, test
\* files included, in non-increasing order of the new score; each output has
\* original_score equal to its input score and an is_test_file flag; the
\* input records are as they were.
C22_BoostKeepsAndSorts ==
    (pc = "returned" /\ req.kind = "boost_results") =>
        /\ Len(results) = Len(req.results)
        /\ \A i \in DOMAIN req.results :
              Cardinality({j \in DOMAIN results :
                              /\ results[j].file_path = req.results[i].file_path
                              /\ results[j].original_score = req.results[i].score}) = 1
        /\ \A j, k \in DOMAIN results :
              j < k => QLe(results[k].score, results[j].score)
        /\ \A j \in DOMAIN results :
              /\ "is_test_file" \in DOMAIN results[j]
              /\ results[j].is_test_file \in BOOLEAN
        /\ req.results_after = req.results

\* tests are not wanted, the input starts with a test file and boost_results
\* returned it behind the other candidate
C22_Witness ==
    /\ pc = "returned"
    /\ req.kind = "boost_results"
    /\ ~req.include_tests
    /\ Len(req.results) = 2
    /\ _is_test_file(req.results[1].file_path)
    /\ results[2].file_path = req.results[1].file_path
    /\ results[2].is_test_file
    /\ QLt(results[2].score, results[2].original_score)

\* an analyze call has returned its expanded query
Expanded == pc = "returned" /\ req.kind = "expand"

\* C23: the expanded query starts with the lowercased, trimmed query, and
\* for every word of the query that is a key of the synonym table, however
\* it is capitalised, the first three synonyms of the key are in the
\* expanded query.
C23_KeepsQueryAddsTopThree ==
    Expanded =>
        LET expanded == results.expanded_query
            query_lower == strip(lower(req.query))
        IN  /\ Len(expanded) >= Len(query_lower)
            /\ SubSeq(expanded, 1, Len(query_lower)) = query_lower
            /\ \A w \in Range(split(req.query)) :
                  \A k \in 1..3 :
                      k <= Len(synonyms_of(lower(w))) =>
                          synonyms_of(lower(w))[k] \in Range(split(expanded))

\* C24: every appended term occurs once among the blank-separated tokens of
\* the expanded query, compared without case and counting the words of the
\* query, and the appended terms are in first-seen order.
C24_AppendedOnceInOrder ==
    Expanded =>
        LET tokens == split(results.expanded_query)
            query_lower == strip(lower(req.query))
            words == Len(split(query_lower))
            candidates == Tail(expanded_parts(query_lower, results.code_terms))
        IN  /\ \A i \in (words + 1)..Len(tokens) :
                  Cardinality({j \in DOMAIN tokens :
                                  lower(tokens[j]) = lower(tokens[i])}) = 1
            /\ SubSeq(tokens, words + 1, Len(tokens))
                  = unique_parts(candidates, Range(split(query_lower)))

\* the texts sent to the backend so far, batch after batch
RECURSIVE Sent(_)
Sent(batches) == IF batches = <<>> THEN <<>> ELSE Head(batches) \o Sent(Tail(batches))

\* C25: embed_documents sends the texts in consecutive batches of at most
\* BATCH_SIZE, each text once and in input order; it returns one vector per
\* text, vector i for text i, or raises at the first failing batch, which is
\* then the last one sent; it never returns fewer vectors than texts.
C25_BatchesInOrderAllOrRaise ==
    req.kind = "embed_documents" =>
        LET texts == texts_of(req)
            sent == Sent(calls)
        IN  /\ \A b \in DOMAIN calls :
                  /\ Len(calls[b]) >= 1
                  /\ Len(calls[b]) <= BATCH_SIZE[searcher.kind]
            /\ Len(sent) <= Len(texts)
            /\ sent = SubSeq(texts, 1, Len(sent))
            /\ pc = "returned" =>
                  /\ sent = texts
                  /\ req.failed = 0
                  /\ Len(results) = Len(texts)
                  /\ \A k \in DOMAIN texts : results[k].embedding_of = texts[k]
            /\ req.failed # 0 => pc = "raised" /\ req.failed = Len(calls)
            /\ pc \in {"idle", "embed_batch", "returned", "raised"}

\* 257 texts went to Voyage in batches of 128, 128 and 1 and came back as
\* 257 vectors
C25_Witness ==
    /\ req.kind = "embed_documents"
    /\ searcher.kind = "VoyageCodeEmbedding"
    /\ pc = "returned"
    /\ Len(calls) = 3
    /\ Len(calls[3]) = 1
    /\ Len(results) = 257

\* C26: for a non-empty batch with raw scores >= 0, _apply_bm25 leaves every
\* bm25_score in [0,1]; the largest is 1 when some raw score is positive,
\* all are 0 when all raw scores are 0; the candidates and their order are
\* as before.
C26_NormalisedToUnitInterval ==
    (pc = "returned" /\ req.kind = "_apply_bm25" /\ req.candidates # <<>>) =>
        /\ Len(results) = Len(req.candidates)
        /\ \A i \in DOMAIN results :
              /\ results[i].metadata = req.candidates[i].metadata
              /\ results[i].semantic_score = req.candidates[i].semantic_score
              /\ QLe(<<0, 1>>, results[i].bm25_score)
              /\ QLe(results[i].bm25_score, <<1, 1>>)
        /\ IF \E i \in DOMAIN req.scores : req.scores[i] > 0
           THEN \E i \in DOMAIN results : results[i].bm25_score = <<1, 1>>
           ELSE \A i \in DOMAIN results : results[i].bm25_score = <<0, 1>>

\* raw scores 2 and 5 became 2/5 and 1
C26_Witness ==
    /\ pc = "returned"
    /\ req.kind = "_apply_bm25"
    /\ Len(results) = 2
    /\ req.scores = <<2, 5>>
    /\ results[1].bm25_score = <<2, 5>>
    /\ results[2].bm25_score = <<1, 1>>

\* a batch whose raw scores are all 0 came back with every bm25_score 0
C26_AllZeroReached ==
    /\ pc = "returned"
    /\ req.kind = "_apply_bm25"
    /\ Len(results) = 2
    /\ req.scores = <<0, 0>>

\* the candidates _hybrid_search took from the index, as HybridSearcher holds
\* them: the similarity as semantic score, the keyword matches as lexical score
RetrievedCandidates ==
    LET matches == index_query(req.index_matches, pool_size(req.config))
    IN  [i \in 1..Len(matches) |->
            [metadata |-> matches[i].metadata, semantic_score |-> matches[i].score,
             bm25_score |-> Q(keyword_matches(to_result(matches[i]), req.query), 1),
             rerank_score |-> <<0, 1>>, fused_score |-> <<0, 1>>]]

\* C27: the score a candidate carries when it leaves SearchEngineV3's
\* _hybrid_search is 0.7/(60+r_sem+1) + 0.3/(60+r_lex+1), the score
\* _rrf_fusion gives it, and the candidates leave ordered by that score.
C27_RetrievalIsRankFusion ==
    (searcher.kind = "SearchEngineV3" /\ pc = "code_graph") =>
        LET fused == sort_desc(_rrf_fusion(RetrievedCandidates, <<7, 10>>, <<3, 10>>),
                               "fused_score")
        IN  /\ Len(results) = Len(fused)
            /\ \A i \in 1..Len(results) :
                  /\ results[i].score = fused[i].fused_score
                  /\ results[i].name = fused[i].metadata.name

\* the complete importance map of each dependency map
ConcurrentMaps == [d \in ConcurrentDeps |-> compute_importance(d)]

\* the accesses to the cache entry of one repo id, in the order they happened
AccessesOf(repo_id) == SelectSeq(calls, LAMBDA a : a.repo_id = repo_id)

\* every entry is the complete map of one dependency map, written once; every
\* access is by a search for that repo id and saw that map
CacheEntriesWholeAndOwn ==
    /\ \A a \in Range(calls) :
          /\ a.repo_id = req[a.request].repo_id
          /\ a.repo_id \in DOMAIN _importance_cache
          /\ a.map = _importance_cache[a.repo_id]
    /\ \A repo_id \in DOMAIN _importance_cache :
          LET accesses == AccessesOf(repo_id)
          IN  /\ accesses # <<>>
              /\ accesses[1].op = "write"
              /\ \A i \in 2..Len(accesses) : accesses[i].op = "read"
              /\ _importance_cache[repo_id] =
                     ConcurrentMaps[accesses[1].file_dependencies]
    \* nobody waits: a coroutine at an await can go on whatever the cache holds
    /\ \A r \in Requests :
          /\ pc[r] = "embed_query" => ENABLED embed_query_fails(r)
          /\ pc[r] = "rerank" =>
                ENABLED rerank_resumes(r, [kind |-> "raises", results |-> <<>>])

\* C28 as stated: under any interleaving of concurrent searches the cache
\* entry of a repo id is absent or one complete map from a single dependency
\* map, written at most once, touched only by searches for that repo id, and
\* the importance cache is the only state the requests share.
C28_CacheIsOnlySharedState ==
    /\ CacheEntriesWholeAndOwn
    /\ searcher.search_v3_queries = 0

\* C28 amended: the cache part as stated; besides the cache the requests
\* share the search_v3_queries counter, which counts the searches that
\* returned after a non-empty retrieval.
C28_CacheAndCounterShared ==
    /\ CacheEntriesWholeAndOwn
    /\ searcher.search_v3_queries =
           Cardinality({r \in Requests : pc[r] = "returned" /\ results[r] # <<>>})

\* request 1 wrote the entry of repo-1 and waits for the reranker; request 2,
\* for the same repo id with another dependency map, read it and returned
C28_Witness ==
    /\ Len(calls) = 2
    /\ calls[1].request = 1 /\ calls[1].op = "write"
    /\ calls[2].request = 2 /\ calls[2].op = "read"
    /\ calls[1].repo_id = calls[2].repo_id
    /\ req[1].file_dependencies # req[2].file_dependencies
    /\ pc[1] = "rerank"
    /\ pc[2] = "returned"
    /\ searcher.search_v3_queries = 1

\* the list HybridSearcher.search handed to _rerank in this call
SubmittedToRerank ==
    fused_candidates(req.index_matches, req.bm25_raw, req.weights, req.top_k)

\* the rerank call of this HybridSearcher.search failed: the backend raised,
\* or the loop over its answer hit an index outside the list
HybridRerankFailed ==
    /\ req.kind = "v2"
    /\ \/ req.rerank.kind \in {"raises", "malformed"}
       \/ /\ req.rerank.kind = "returns"
          /\ rerank_loop(req.rerank.results, SubmittedToRerank, <<>>).failed

\* C29: when _rerank fails at any point, HybridSearcher.search returns what it
\* returns with use_reranking=False: the same candidates in the fused order
\* with the fused scores.
C29_FailedRerankLeavesFusedScores ==
    (pc = "returned" /\ HybridRerankFailed) =>
        results = hybrid_return(SubmittedToRerank, req.top_k)

\* the non-test candidates of the submitted pool that the reranker gave a
\* relevance of at least MIN_RELEVANCE
EligibleNonTests ==
    {i \in DOMAIN req.rerank.results :
        /\ QLe(MIN_RELEVANCE, req.rerank.results[i].relevance_score)
        /\ is_not_test_result(req.pool[req.rerank.results[i].index + 1])}

\* C30: when the rerank succeeds with include_tests false and at least top_k
\* non-test candidates of the pool got relevance >= 0.01, the search returns
\* exactly top_k results.
C30_EligibleNonTestsFillTopK ==
    (pc = "returned" /\ req.kind = "step5" /\ ~req.include_tests
        /\ Cardinality(EligibleNonTests) >= req.top_k) =>
        Len(results) = req.top_k

====
